---- MODULE Spec2Model ----
(***************************************************************************)
(* A model of the interactive demo components of the site: the dual-mode   *)
(* OffscreenDemo with its rendering worker (offscreen-worker.ts), and the  *)
(* render loops of InstancedMeshDemo, WebGPUDemo, WebGLDemo and            *)
(* MatrixRainShader, and the timeouts of TimerAndOldStateDemo.             *)
(*                                                                         *)
(* Numbers.  Times are whole milliseconds; performance.now() and           *)
(* Date.now() are read from the one clock `now`.  Camera angles are kept   *)
(* in units of 1/(1000*Scale) rad and camera distances in units of         *)
(* 1/(20*Scale) world units, where Scale = 20^CameraFrames, so that the       *)
(* damping step  cur += (target - cur) * 0.05  is computed exactly for as  *)
(* many frames as one render loop is allowed to run.                       *)
(***************************************************************************)
EXTENDS Integers, Sequences, FiniteSets, TLC

VARIABLES
    now,        \* the wall clock, ms
    fg,         \* OffscreenDemo: React state and refs of the component
    workers,    \* every Worker ever constructed by OffscreenDemo, by id
    renderers,  \* every main-thread WebGLRenderer of OffscreenDemo, by id
    controls,   \* every OrbitControls of OffscreenDemo, by id
    canvases,   \* every canvas element of OffscreenDemo, by id
    raf,        \* OffscreenDemo main thread: pending requestAnimationFrame callbacks
    statsQ,     \* 'stats' messages posted by workers, not yet delivered
    hist,       \* history: counters that bound a run, the frames of the open window
    inst,       \* InstancedMeshDemo: React state and the closures of its effect runs
    gpu,        \* WebGPUDemo: React state, refs, pending initialisations, render loops
    gl,         \* WebGLDemo: React state, refs and the closure of its mount effect
    rain,       \* MatrixRainShader: its renderer, its animate loop, its listener
    timer       \* TimerAndOldStateDemo: React state and its pending timeouts

offVars == <<fg, workers, renderers, controls, canvases, raf, statsQ, hist>>

vars == <<now, fg, workers, renderers, controls, canvases, raf, statsQ, hist,
          inst, gpu, gl, rain, timer>>

----------------------------------------------------------------------------
(* Bounds of the model *)

\* the camera run: one worker, drags and wheel turns of every size
CameraFrames == 3   \* frames the worker's loop runs
CameraEvents == 2   \* pointer and wheel events
CameraTime == 1100   \* the clock stops here
\* the drag run
RotateEvents == 3    \* pointer and wheel events
RotateFrames == 2    \* frames the worker renders
RotateTime == 1100   \* the clock stops here
\* the lifecycle run: every mode, twice
LifeToggles == 4    \* clicks on the mode button
LifeFrames == 2     \* frames one render loop runs
LifeEvents == 1
LifeTime == 1300
\* the statistics run: both render loops, short and long frames
StatsToggles == 2
StatsFrames == 3
StatsEvents == 1
StatsTime == 2100
\* the run on full sample buffers
DelayToggles == 2
DelayFrames == 2
DelayEvents == 2
DelayStart == 5000       \* the time the run starts at
DelayTime == 6100
PrefillDelays == 29      \* latency samples taken before the run starts
PrefillFrames == 59      \* frame times recorded before the run starts
\* the run of the moving objects
BounceFrames == 4
BounceTime == 100
\* the InstancedMeshDemo run
InstChanges == 2    \* changes of the render mode
InstFrames == 2     \* frames one animate loop runs
InstTime == 2100
\* the WebGPUDemo run
GpuChanges == 3     \* changes of the renderer type
GpuFrames == 2      \* frames one render loop runs
GpuResizes == 1     \* window resize events
GpuTime == 1001
\* the WebGLDemo run
GlChanges == 2      \* changes of the renderer type
GlFrames == 3       \* frames the animate loop runs
GlResizes == 1      \* window resize events
GlTime == 1001
\* MatrixRainShader
RainFrames == 4      \* frames the animate loop runs
RainResizes == 2     \* window resize events
RainTime == 1100     \* the clock stops here
MaxQueue == 2       \* undelivered messages per channel
NumObjects == 1     \* animated cubes per scene

(* Program constants *)

HalfPi == 1571              \* Math.PI / 2 in mrad
RotPerPixel == 5            \* 0.005 rad per pixel of drag, in mrad
MinDistance == 200          \* 10 world units, in units of 0.05
MaxDistance == 2000         \* 100 world units, in units of 0.05
InitDistance == 600         \* 30 world units, in units of 0.05
DampDen == 20               \* dampingFactor 0.05 = 1 / 20
MaxInteractionDelays == 30
MaxFrameTimes == 60
StatsPeriod == 1000
Boundary == 25000           \* 25 world units, in units of 0.001
DefaultObjectCount == 100
DemoObjectCount == 20000
CubeCount == 10000

RECURSIVE Pow(_, _)
Pow(b, n) == IF n = 0 THEN 1 ELSE b * Pow(b, n - 1)

Scale == Pow(DampDen, CameraFrames)

Max(a, b) == IF a >= b THEN a ELSE b
Min(a, b) == IF a <= b THEN a ELSE b
Abs(a) == IF a < 0 THEN -a ELSE a

RECURSIVE SumSeq(_)
SumSeq(s) == IF s = <<>> THEN 0 ELSE Head(s) + SumSeq(Tail(s))

\* Math.round of the non-negative quotient num / den
RoundDiv(num, den) == (2 * num + den) \div (2 * den)

\* x.toFixed(2) of the non-negative quotient num / den, in hundredths
ToFixed2(num, den) == RoundDiv(100 * num, den)

----------------------------------------------------------------------------
(* offscreen-worker.ts: module state *)

\* frameTime > TARGET_FRAME_TIME, with TARGET_FRAME_TIME = 1000 / 60
ExceedsTargetFrameTime(frameTime) == frameTime * 60 > 1000

NewPerf(t) ==
    [ lastTime |-> t, frames |-> 0, frameTimes |-> <<>>, droppedFrames |-> 0,
      maxDelay |-> 0, lastInteractionTime |-> 0,
      interactionDelay |-> [num |-> 0, den |-> 1], interactionDelays |-> <<>> ]

NewWorkerState(t) ==
    [ objectCount |-> DefaultObjectCount,
      perf |-> NewPerf(t),
      fps |-> 0,
      cameraRotation |-> [x |-> 0, y |-> 0],
      cameraRotationTarget |-> [x |-> 0, y |-> 0],
      cameraDistance |-> InitDistance * Scale,
      cameraDistanceTarget |-> InitDistance * Scale,
      isDragging |-> FALSE,
      objects |-> <<>> ]

ClampPitchUpperOnly(x) == Min(HalfPi * Scale, x)

ClampPitch(x) == Max(-(HalfPi * Scale), Min(HalfPi * Scale, x))

ClampDistanceLowerOnly(d) == Max(MinDistance * Scale, d)

ClampDistance(d) == Max(MinDistance * Scale, Min(MaxDistance * Scale, d))

SetInteractionTime(st, msg) ==
    IF msg.hasTs /\ msg.timestamp # 0
    THEN [st EXCEPT !.perf.lastInteractionTime = msg.timestamp]
    ELSE st

RotateTargetLast(tgt, msg) ==
    [ y |-> -(msg.deltaX * RotPerPixel * Scale),
      x |-> ClampPitch(tgt.x + msg.deltaY * RotPerPixel * Scale) ]

RotateTarget(tgt, msg) ==
    [ y |-> tgt.y - msg.deltaX * RotPerPixel * Scale,
      x |-> ClampPitch(tgt.x + msg.deltaY * RotPerPixel * Scale) ]

ZoomTarget(d, msg) == ClampDistance(d + msg.delta * Scale)

handleInteraction(st, msg) ==
    IF msg.action = "start"
    THEN SetInteractionTime([st EXCEPT !.isDragging = TRUE], msg)
    ELSE IF msg.action = "rotate" /\ st.isDragging
    THEN [st EXCEPT !.cameraRotationTarget = RotateTarget(@, msg)]
    ELSE IF msg.action = "end"
    THEN [st EXCEPT !.isDragging = FALSE]
    ELSE IF msg.action = "zoom"
    THEN SetInteractionTime(
            [st EXCEPT !.cameraDistanceTarget = ZoomTarget(@, msg)], msg)
    ELSE st

DampAway(cur, target) == cur - (target - cur) \div DampDen

DampOvershoot(cur, target) == cur + (target - cur) * 2

\* cur += (target - cur) * dampingFactor
Damp(cur, target) == cur + (target - cur) \div DampDen

\* the damping step is exact in the model's units
DampExact(cur, target) == (target - cur) % DampDen = 0

updateCameraPosition(st) ==
    [st EXCEPT !.cameraRotation =
                   [ x |-> Damp(@.x, st.cameraRotationTarget.x),
                     y |-> Damp(@.y, st.cameraRotationTarget.y) ],
               !.cameraDistance = Damp(@, st.cameraDistanceTarget)]

CameraExact(st) ==
    /\ DampExact(st.cameraRotation.x, st.cameraRotationTarget.x)
    /\ DampExact(st.cameraRotation.y, st.cameraRotationTarget.y)
    /\ DampExact(st.cameraDistance, st.cameraDistanceTarget)


PushUnbounded(s, v, cap) == Append(s, v)

PushBounded(s, v, cap) ==
    LET a == Append(s, v) IN IF Len(a) > cap THEN Tail(a) ELSE a

MeasureInteractionKeepsPending(p, t) ==
    IF p.lastInteractionTime > 0
    THEN LET ds == PushBounded(p.interactionDelays, t - p.lastInteractionTime,
                               MaxInteractionDelays)
         IN  [p EXCEPT !.interactionDelays = ds,
                       !.interactionDelay = [num |-> SumSeq(ds), den |-> Len(ds)]]
    ELSE p

\* the interaction-delay step of animate; t is Date.now()
MeasureInteraction(p, t) ==
    IF p.lastInteractionTime > 0
    THEN LET ds == PushBounded(p.interactionDelays, t - p.lastInteractionTime,
                               MaxInteractionDelays)
         IN  [p EXCEPT !.interactionDelays = ds,
                       !.interactionDelay = [num |-> SumSeq(ds), den |-> Len(ds)],
                       !.lastInteractionTime = 0]
    ELSE p

MoveAxisNoBounce(a) == [p |-> a.p + a.v, v |-> a.v]

\* one axis of one object: position += velocity, then bounce
MoveAxis(a) ==
    LET q == a.p + a.v
    IN  [p |-> q, v |-> IF Abs(q) > Boundary THEN -a.v ELSE a.v]

MoveObject(obj) ==
    [ x |-> MoveAxis(obj.x), y |-> MoveAxis(obj.y), z |-> MoveAxis(obj.z),
      rot |-> [ x |-> obj.rot.x + obj.rv.x, y |-> obj.rot.y + obj.rv.y,
                z |-> obj.rot.z + obj.rv.z ],
      rv |-> obj.rv ]

MoveObjects(objs) == [i \in DOMAIN objs |-> MoveObject(objs[i])]

CountDropped(dropped, frameTime) ==
    IF ExceedsTargetFrameTime(frameTime) THEN dropped + 1 ELSE dropped

\* the frame-time bookkeeping of animate, up to frames++
RecordFrame(p, frameTime) ==
    [p EXCEPT !.frameTimes = PushBounded(@, frameTime, MaxFrameTimes),
              !.droppedFrames = CountDropped(@, frameTime),
              !.maxDelay = Max(@, frameTime),
              !.frames = @ + 1]

StatsDue(p, t) == t >= p.lastTime + StatsPeriod

ComputeFpsPerMs(frames, elapsed) == RoundDiv(frames, elapsed)

ComputeFps(frames, elapsed) == RoundDiv(frames * 1000, elapsed)

Snapshot(p, t) ==
    [ fps |-> ComputeFps(p.frames, t - p.lastTime),
      avgFrameTime |-> ToFixed2(SumSeq(p.frameTimes), Len(p.frameTimes)),
      droppedFrames |-> p.droppedFrames,
      maxDelay |-> ToFixed2(p.maxDelay, 1),
      interactionDelay |-> ToFixed2(p.interactionDelay.num, p.interactionDelay.den) ]

ResetWindowAndBuffers(p, t) ==
    [p EXCEPT !.frames = 0, !.lastTime = t, !.droppedFrames = 0, !.maxDelay = 0,
              !.frameTimes = <<>>, !.interactionDelays = <<>>]

ResetWindowKeepsMax(p, t) ==
    [p EXCEPT !.frames = 0, !.lastTime = t, !.droppedFrames = 0]

ResetWindowKeepsDropped(p, t) ==
    [p EXCEPT !.frames = 0, !.lastTime = t, !.maxDelay = 0]

ResetWindow(p, t) ==
    [p EXCEPT !.frames = 0, !.lastTime = t, !.droppedFrames = 0, !.maxDelay = 0]

\* animate of the worker: one frame that starts at t and takes frameTime ms.
\* out holds the 'stats' message the frame posts, if any.
animateWorker(st, t, frameTime) ==
    LET s1 == updateCameraPosition(st)
        s2 == [s1 EXCEPT !.perf = MeasureInteraction(@, t)]
        s3 == [s2 EXCEPT !.objects = MoveObjects(@)]
        s4 == [s3 EXCEPT !.perf = RecordFrame(@, frameTime)]
        t2 == t + frameTime
        snap == Snapshot(s4.perf, t2)
    IN  IF StatsDue(s4.perf, t2)
        THEN [ st |-> [s4 EXCEPT !.fps = snap.fps, !.perf = ResetWindow(@, t2)],
               out |-> <<snap>> ]
        ELSE [ st |-> s4, out |-> <<>> ]

\* the scenes createScene can build: each cube's random position and velocity
Still == [p |-> 0, v |-> 0]

ObjectInits ==
    { [ x |-> [p |-> 24995, v |-> 9], y |-> [p |-> -24990, v |-> -4],
        z |-> [p |-> 100, v |-> 5],
        rot |-> [x |-> 0, y |-> 0, z |-> 0], rv |-> [x |-> 20, y |-> -10, z |-> 0] ] }

Scenes(count) == [1..Min(count, NumObjects) -> ObjectInits]

\* self.onmessage, type 'init': the scene is built and the first frame runs
workerInit(st, msg, scene, t, frameTime) ==
    LET s1 == [st EXCEPT !.objectCount =
                   IF msg.objectCount # 0 THEN msg.objectCount ELSE DefaultObjectCount]
        s2 == updateCameraPosition(s1)
        s3 == [s2 EXCEPT !.objects = scene]
    IN  animateWorker(s3, t, frameTime)

----------------------------------------------------------------------------
(* OffscreenDemo: the component.  Its handlers are functions of the world W,  *)
(* the record of everything the main thread can touch.                        *)

World ==
    [ fg |-> fg, workers |-> workers, renderers |-> renderers,
      controls |-> controls, canvases |-> canvases, raf |-> raf,
      statsQ |-> statsQ ]

NoRelay == [on |-> FALSE, worker |-> 0, isDragging |-> FALSE,
            lastMouseX |-> 0, lastMouseY |-> 0]

\* transfers: history, the calls of transferControlToOffscreen on the canvas
NewCanvas == [inContainer |-> TRUE, transferred |-> FALSE, context |-> "none",
              relay |-> NoRelay, transfers |-> 0]

ZeroStats == [fps |-> 0, avgFrameTime |-> 0, droppedFrames |-> 0, maxDelay |-> 0,
              interactionDelay |-> 0]

\* history of a worker: the rotate messages it applied (how many, the sum
\* of their deltaX) and its frame count at the first and the last of them
NoRotation == [n |-> 0, sum |-> 0, first |-> 0, last |-> 0]

terminateNothing(W, id) == W

\* worker.terminate(): the worker stops, its queued messages in both
\* directions are discarded
terminate(W, id) ==
    [W EXCEPT !.workers[id] = [@ EXCEPT !.alive = FALSE,
                                        !.terminated = @ + 1,
                                        !.phase = "terminated",
                                        !.inbox = <<>>,
                                        !.st = NewWorkerState(0),
                                        !.frameNo = 0,
                                        !.win = <<>>,
                                        !.winStart = 0,
                                        !.open = FALSE,
                                        !.rot = NoRotation],
              !.statsQ = SelectSeq(@, LAMBDA m : m.worker # id)]

cleanupWorkerKeepsRef(W) ==
    IF W.fg.workerRef # 0 THEN terminate(W, W.fg.workerRef) ELSE W

cleanupWorker(W) ==
    IF W.fg.workerRef # 0
    THEN [terminate(W, W.fg.workerRef) EXCEPT !.fg.workerRef = 0]
    ELSE W

cancelAnimationFrame(W, id) ==
    [W EXCEPT !.raf.pending = {cb \in @ : cb.id # id}]

disposeRenderer(W, id) ==
    [W EXCEPT !.renderers[id].disposed = @ + 1]

disposeControls(W, id) ==
    [W EXCEPT !.controls[id].disposed = @ + 1]

cleanupMainThreadRefsOnly(W) ==
    [W EXCEPT !.fg.animationFrameRef = 0, !.fg.rendererRef = 0, !.fg.controlsRef = 0,
              !.fg.sceneRef = 0, !.fg.cameraRef = 0, !.fg.objectsRef = <<>>]

cleanupMainThreadKeepsRefs(W) ==
    LET W1 == IF W.fg.animationFrameRef # 0
              THEN [cancelAnimationFrame(W, W.fg.animationFrameRef)
                        EXCEPT !.fg.animationFrameRef = 0]
              ELSE W
        W2 == IF W1.fg.rendererRef # 0
              THEN disposeRenderer(W1, W1.fg.rendererRef)
              ELSE W1
        W3 == IF W2.fg.controlsRef # 0
              THEN disposeControls(W2, W2.fg.controlsRef)
              ELSE W2
    IN  [W3 EXCEPT !.fg.sceneRef = 0, !.fg.cameraRef = 0, !.fg.objectsRef = <<>>]

cleanupMainThread(W) ==
    LET W1 == IF W.fg.animationFrameRef # 0
              THEN [cancelAnimationFrame(W, W.fg.animationFrameRef)
                        EXCEPT !.fg.animationFrameRef = 0]
              ELSE W
        W2 == IF W1.fg.rendererRef # 0
              THEN [disposeRenderer(W1, W1.fg.rendererRef) EXCEPT !.fg.rendererRef = 0]
              ELSE W1
        W3 == IF W2.fg.controlsRef # 0
              THEN [disposeControls(W2, W2.fg.controlsRef) EXCEPT !.fg.controlsRef = 0]
              ELSE W2
    IN  [W3 EXCEPT !.fg.sceneRef = 0, !.fg.cameraRef = 0, !.fg.objectsRef = <<>>]

\* containerRef.current.querySelector('canvas'): the first canvas of the container, or 0
QueryCanvas(W) ==
    LET inside == {c \in DOMAIN W.canvases : W.canvases[c].inContainer}
    IN  IF inside = {} THEN 0 ELSE CHOOSE c \in inside : \A d \in inside : c <= d

ReplaceCanvasKeepsOld(W) == [W EXCEPT !.canvases = Append(@, NewCanvas)]

\* oldCanvas.remove(), then createElement('canvas') and insertBefore
ReplaceCanvas(W) ==
    LET old == QueryCanvas(W)
        W1 == IF old # 0 THEN [W EXCEPT !.canvases[old].inContainer = FALSE] ELSE W
    IN  [W1 EXCEPT !.canvases = Append(@, NewCanvas)]

InitMessage ==
    [ type |-> "init", action |-> "", deltaX |-> 0, deltaY |-> 0, delta |-> 0,
      hasTs |-> FALSE, timestamp |-> 0, objectCount |-> DemoObjectCount ]

InteractionMessage(action, dx, dy, d, hasTs, ts) ==
    [ type |-> "interaction", action |-> action, deltaX |-> dx, deltaY |-> dy,
      delta |-> d, hasTs |-> hasTs, timestamp |-> ts, objectCount |-> 0 ]

NewWorker(canvas) ==
    [ alive |-> TRUE, terminated |-> 0, phase |-> "loading", inbox |-> <<>>,
      st |-> NewWorkerState(0), canvas |-> canvas, frameNo |-> 0, win |-> <<>>,
      winStart |-> 0, open |-> FALSE, rot |-> NoRotation ]

\* open records whether the last 'start' sent has no 'end' sent after it
postMessage(W, id, msg) ==
    IF W.workers[id].alive
    THEN [W EXCEPT !.workers[id].inbox = Append(@, msg),
                   !.workers[id].open = IF msg.action = "start" THEN TRUE
                                        ELSE IF msg.action = "end" THEN FALSE
                                        ELSE @]
    ELSE W

initOffscreenMode(W0) ==
    LET W == cleanupMainThread(W0)
    IN  IF W.fg.canvasRef = 0 \/ ~W.fg.mounted
        THEN W
        ELSE
          LET W1 == ReplaceCanvas(W)
              cv == Len(W1.canvases)
              id == Len(W1.workers) + 1
              \* transferControlToOffscreen, new Worker
              W2 == [W1 EXCEPT !.canvases[cv].transferred = TRUE,
                               !.canvases[cv].transfers = @ + 1,
                               !.workers = Append(@, NewWorker(cv)),
                               !.fg.workerRef = id]
              W3 == postMessage(W2, id, InitMessage)
          \* setupOffscreenControls(newCanvas, worker)
          IN  [W3 EXCEPT !.canvases[cv].relay = [NoRelay EXCEPT !.on = TRUE,
                                                                !.worker = id]]

\* animate of the main thread, with the currentMode its closure captured:
\* one frame that starts at t and takes frameTime ms
animateMain(W, mode, t, frameTime) ==
    IF mode # "main"
    THEN W
    ELSE
      LET id == W.raf.next
          p1 == MeasureInteraction(W.fg.perfRef, t)
          p2 == RecordFrame(p1, frameTime)
          t2 == t + frameTime
          r  == W.fg.rendererRef
          W1 == [W EXCEPT !.raf = [next |-> id + 1,
                                   pending |-> @.pending \cup
                                                 {[id |-> id, mode |-> mode]}],
                          !.fg.animationFrameRef = id,
                          !.fg.objectsRef = MoveObjects(@)]
          W2 == IF r # 0
                THEN [W1 EXCEPT !.renderers[r].renders = @ + 1,
                                !.renderers[r].rendersDisposed =
                                    IF W1.renderers[r].disposed > 0 THEN @ + 1 ELSE @]
                ELSE W1
      IN  IF StatsDue(p2, t2)
          THEN [W2 EXCEPT !.fg.stats = Snapshot(p2, t2),
                          !.fg.statsCalls = @ + 1,
                          !.fg.perfRef = ResetWindow(p2, t2)]
          ELSE [W2 EXCEPT !.fg.perfRef = p2]

initMainThreadMode(W0, scene, t, frameTime) ==
    LET W == cleanupWorker(W0)
    IN  IF ~W.fg.mounted
        THEN W
        ELSE
          LET W1 == ReplaceCanvas(W)
              cv == Len(W1.canvases)
              r  == Len(W1.renderers) + 1
              c  == Len(W1.controls) + 1
              W2 == [W1 EXCEPT
                        !.canvases[cv].context = "webgl",
                        !.renderers = Append(@, [disposed |-> 0, renders |-> 0,
                                                 rendersDisposed |-> 0, canvas |-> cv]),
                        !.controls = Append(@, [disposed |-> 0, canvas |-> cv]),
                        !.fg.sceneRef = r, !.fg.cameraRef = r,
                        !.fg.rendererRef = r, !.fg.controlsRef = c,
                        \* createScene
                        !.fg.objectsRef = scene]
          IN  animateMain(W2, "main", t, frameTime)

clearCanvas(W, t) ==
    LET cv == QueryCanvas(W)
    IN  IF cv # 0 /\ ~W.canvases[cv].transferred
        THEN [W EXCEPT !.canvases[cv].context = "webgl", !.fg.perfRef = NewPerf(t)]
        ELSE W

NextMode(mode) ==
    IF mode = "none" THEN "offscreen" ELSE IF mode = "offscreen" THEN "main" ELSE "none"

\* the cleanup function the effect on currentMode returns
effectCleanup(W) == cleanupMainThread(cleanupWorker(W))

\* the body of the effect on currentMode
effectBody(W, mode, scene, t, frameTime) ==
    IF mode = "offscreen" THEN initOffscreenMode(W)
    ELSE IF mode = "main" THEN initMainThreadMode(W, scene, t, frameTime)
    ELSE clearCanvas(cleanupMainThread(cleanupWorker(W)), t)

\* toggleRenderMode and the re-render it causes: the previous effect's cleanup,
\* then the effect of the new mode
toggleRenderMode(W, scene, t, frameTime) ==
    LET mode == NextMode(W.fg.currentMode)
        W1 == [W EXCEPT !.fg.perfRef = NewPerf(t), !.fg.currentMode = mode]
    IN  effectBody(effectCleanup(W1), mode, scene, t, frameTime)

unmount(W) ==
    [effectCleanup(W) EXCEPT !.fg.mounted = FALSE, !.fg.canvasRef = 0]

----------------------------------------------------------------------------
(* The initial state: the component is mounted in mode 'none' and its first   *)
(* effect has run (clearCanvas took a WebGL context on the canvas of the JSX) *)

\* the page holds no InstancedMeshDemo, WebGPUDemo or WebGLDemo
OthersAbsent ==
    /\ inst = [mounted |-> FALSE]
    /\ gpu = [mounted |-> FALSE]
    /\ gl = [mounted |-> FALSE]
    /\ rain = [mounted |-> FALSE]
    /\ timer = [mounted |-> FALSE]

NoEmit == [src |-> "none", worker |-> 0, snap |-> ZeroStats, window |-> <<>>,
           elapsed |-> 0]

InitialWorld ==
    [ fg |-> [ mounted |-> TRUE, currentMode |-> "none", stats |-> ZeroStats,
               statsCalls |-> 0, canvasRef |-> 1, workerRef |-> 0, sceneRef |-> 0,
               cameraRef |-> 0, rendererRef |-> 0, controlsRef |-> 0,
               objectsRef |-> <<>>, animationFrameRef |-> 0, perfRef |-> NewPerf(1) ],
      workers |-> <<>>,
      renderers |-> <<>>,
      controls |-> <<>>,
      canvases |-> << [NewCanvas EXCEPT !.context = "webgl"] >>,
      raf |-> [next |-> 1, pending |-> {}],
      statsQ |-> <<>> ]

InitialHist ==
    [ toggles |-> 0, events |-> 0, mainFrames |-> 0, mainWin |-> <<>>,
      mainStart |-> 1, emits |-> 0, lastEmit |-> NoEmit ]

\* the world is W
Is(W) ==
    /\ fg = W.fg
    /\ workers = W.workers
    /\ renderers = W.renderers
    /\ controls = W.controls
    /\ canvases = W.canvases
    /\ raf = W.raf
    /\ statsQ = W.statsQ

InitOffscreen ==
    /\ now = 1
    /\ Is(InitialWorld)
    /\ hist = InitialHist
    /\ OthersAbsent

\* the main thread's part of the world becomes W
Becomes(W) ==
    /\ fg' = W.fg
    /\ workers' = W.workers
    /\ renderers' = W.renderers
    /\ controls' = W.controls
    /\ canvases' = W.canvases
    /\ raf' = W.raf
    /\ statsQ' = W.statsQ

(* Actions of the main thread *)

Tick(B, d) ==
    /\ now + d <= B.time
    /\ now' = now + d
    /\ UNCHANGED <<fg, workers, renderers, controls, canvases, raf, statsQ, hist,
                   inst, gpu, gl, rain, timer>>

\* a click on the mode button; entering 'main' runs the first frame
ToggleRenderMode(B, scene, frameTime) ==
    LET toMain == NextMode(fg.currentMode) = "main"
        W == toggleRenderMode(World, scene, now, frameTime)
        emitted == W.fg.statsCalls # fg.statsCalls
    IN  /\ fg.mounted
        /\ hist.toggles < B.toggles
        /\ toMain => now + frameTime <= B.time
        /\ Becomes(W)
        /\ now' = IF toMain THEN now + frameTime ELSE now
        /\ hist' = [hist EXCEPT
                      !.toggles = @ + 1,
                      !.mainFrames = IF toMain THEN 1 ELSE @,
                      !.mainWin = IF toMain /\ ~emitted THEN <<frameTime>> ELSE <<>>,
                      !.mainStart = IF emitted THEN now + frameTime ELSE now,
                      !.emits = IF emitted THEN @ + 1 ELSE @,
                      !.lastEmit = IF emitted
                                   THEN [src |-> "main", worker |-> 0,
                                         snap |-> W.fg.stats, window |-> <<frameTime>>,
                                         elapsed |-> frameTime]
                                   ELSE @]

Unmount ==
    /\ fg.mounted
    /\ Becomes(unmount(World))
    /\ UNCHANGED <<now, hist>>

\* a requestAnimationFrame callback of the main thread fires
MainFrame(B, cb, frameTime) ==
    LET W0 == [World EXCEPT !.raf.pending = @ \ {cb}]
        W == animateMain(W0, cb.mode, now, frameTime)
        emitted == W.fg.statsCalls # fg.statsCalls
        window == Append(hist.mainWin, frameTime)
    IN  /\ cb \in raf.pending
        /\ hist.mainFrames < B.frames
        /\ now + frameTime <= B.time
        /\ Becomes(W)
        /\ now' = now + frameTime
        /\ hist' = [hist EXCEPT
                      !.mainFrames = @ + 1,
                      !.mainWin = IF emitted THEN <<>> ELSE window,
                      !.mainStart = IF emitted THEN now + frameTime ELSE @,
                      !.emits = IF emitted THEN @ + 1 ELSE @,
                      !.lastEmit = IF emitted
                                   THEN [src |-> "main", worker |-> 0,
                                         snap |-> W.fg.stats, window |-> window,
                                         elapsed |-> now + frameTime - hist.mainStart]
                                   ELSE @]

\* the canvas that receives pointer events, or 0
EventCanvas == IF fg.mounted THEN QueryCanvas(World) ELSE 0

RelayEnabled(B, cv) ==
    /\ cv # 0
    /\ canvases[cv].relay.on
    /\ hist.events < B.events
    /\ Len(workers[canvases[cv].relay.worker].inbox) < MaxQueue

\* setupOffscreenControls: handleMouseDown
MouseDown(B, x, y) ==
    LET cv == EventCanvas
        rl == canvases[cv].relay
        W1 == [World EXCEPT !.canvases[cv].relay =
                   [@ EXCEPT !.isDragging = TRUE, !.lastMouseX = x, !.lastMouseY = y]]
    IN  /\ RelayEnabled(B, cv)
        /\ Becomes(postMessage(W1, rl.worker,
                               InteractionMessage("start", 0, 0, 0, TRUE, now)))
        /\ hist' = [hist EXCEPT !.events = @ + 1]
        /\ UNCHANGED now

MouseMoveAlways(B, x, y) ==
    LET cv == EventCanvas
        rl == canvases[cv].relay
        W1 == [World EXCEPT !.canvases[cv].relay =
                   [@ EXCEPT !.lastMouseX = x, !.lastMouseY = y]]
    IN  /\ RelayEnabled(B, cv)
        /\ Becomes(postMessage(W1, rl.worker,
                        InteractionMessage("rotate", x - rl.lastMouseX,
                                           y - rl.lastMouseY, 0, FALSE, 0)))
        /\ hist' = [hist EXCEPT !.events = @ + 1]
        /\ UNCHANGED now

\* setupOffscreenControls: handleMouseMove
MouseMove(B, x, y) ==
    LET cv == EventCanvas
        rl == canvases[cv].relay
        W1 == [World EXCEPT !.canvases[cv].relay =
                   [@ EXCEPT !.lastMouseX = x, !.lastMouseY = y]]
    IN  /\ RelayEnabled(B, cv)
        /\ Becomes(IF ~rl.isDragging
                   THEN World
                   ELSE postMessage(W1, rl.worker,
                            InteractionMessage("rotate", x - rl.lastMouseX,
                                               y - rl.lastMouseY, 0, FALSE, 0)))
        /\ hist' = [hist EXCEPT !.events = @ + 1]
        /\ UNCHANGED now

\* setupOffscreenControls: handleMouseUp
MouseUp(B) ==
    LET cv == EventCanvas
        rl == canvases[cv].relay
        W1 == [World EXCEPT !.canvases[cv].relay.isDragging = FALSE]
    IN  /\ RelayEnabled(B, cv)
        /\ Becomes(postMessage(W1, rl.worker,
                               InteractionMessage("end", 0, 0, 0, FALSE, 0)))
        /\ hist' = [hist EXCEPT !.events = @ + 1]
        /\ UNCHANGED now

\* setupOffscreenControls: handleWheel
Wheel(B, deltaY) ==
    LET cv == EventCanvas
        rl == canvases[cv].relay
    IN  /\ RelayEnabled(B, cv)
        /\ Becomes(postMessage(World, rl.worker,
                               InteractionMessage("zoom", 0, 0, deltaY, TRUE, now)))
        /\ hist' = [hist EXCEPT !.events = @ + 1]
        /\ UNCHANGED now

\* the 'start' listener initMainThreadMode puts on its OrbitControls
ControlsStart(B) ==
    /\ fg.mounted
    /\ fg.controlsRef # 0
    /\ controls[fg.controlsRef].disposed = 0
    /\ hist.events < B.events
    /\ fg' = [fg EXCEPT !.perfRef.lastInteractionTime = now]
    /\ hist' = [hist EXCEPT !.events = @ + 1]
    /\ UNCHANGED <<now, workers, renderers, controls, canvases, raf, statsQ>>

\* worker.onmessage of the main thread
DeliverStats ==
    /\ statsQ # <<>>
    /\ statsQ' = Tail(statsQ)
    /\ fg' = IF fg.mounted THEN [fg EXCEPT !.stats = Head(statsQ).data] ELSE fg
    /\ UNCHANGED <<now, workers, renderers, controls, canvases, raf, hist>>

(* Actions of a worker *)

\* the worker's module is evaluated: its top-level state is initialised
WorkerLoad(id) ==
    /\ workers[id].alive
    /\ workers[id].phase = "loading"
    /\ workers' = [workers EXCEPT ![id].phase = "loaded",
                                  ![id].st = NewWorkerState(now),
                                  ![id].winStart = now]
    /\ UNCHANGED <<now, fg, renderers, controls, canvases, raf, statsQ, hist>>

\* the effects of a frame of worker id that took frameTime and posted out
WorkerRan(B, id, res, frameTime) ==
    LET window == Append(workers[id].win, frameTime)
        emitted == res.out # <<>>
    IN  /\ workers[id].frameNo < B.frames
        /\ now + frameTime <= B.time
        /\ CameraExact(workers[id].st)
        /\ emitted => Len(statsQ) < MaxQueue
        /\ workers' = [workers EXCEPT ![id].st = res.st,
                                      ![id].phase = "running",
                                      ![id].inbox = IF workers[id].phase = "running"
                                                    THEN @ ELSE Tail(@),
                                      ![id].frameNo = @ + 1,
                                      ![id].win = IF emitted THEN <<>> ELSE window,
                                      ![id].winStart = IF emitted THEN now + frameTime
                                                       ELSE @]
        /\ statsQ' = IF emitted
                     THEN Append(statsQ, [worker |-> id, data |-> res.out[1]])
                     ELSE statsQ
        /\ now' = now + frameTime
        /\ hist' = IF emitted
                   THEN [hist EXCEPT !.emits = @ + 1,
                                     !.lastEmit =
                            [src |-> "worker", worker |-> id, snap |-> res.out[1],
                             window |-> window,
                             elapsed |-> now + frameTime - workers[id].winStart]]
                   ELSE hist
        /\ UNCHANGED <<fg, renderers, controls, canvases, raf>>

\* self.onmessage, type 'init'
WorkerInit(B, id, scene, frameTime) ==
    /\ workers[id].alive
    /\ workers[id].phase = "loaded"
    /\ workers[id].inbox # <<>>
    /\ Head(workers[id].inbox).type = "init"
    /\ WorkerRan(B, id, workerInit(workers[id].st, Head(workers[id].inbox), scene,
                                now, frameTime), frameTime)

\* the history of worker w after it handled msg
Rotated(w, msg) ==
    IF msg.action = "rotate" /\ w.st.isDragging
    THEN [ n |-> w.rot.n + 1, sum |-> w.rot.sum + msg.deltaX,
           first |-> IF w.rot.n = 0 THEN w.frameNo ELSE w.rot.first,
           last |-> w.frameNo ]
    ELSE w.rot

\* self.onmessage, type 'interaction'
WorkerInteraction(id) ==
    /\ workers[id].alive
    /\ workers[id].phase = "running"
    /\ workers[id].inbox # <<>>
    /\ Head(workers[id].inbox).type = "interaction"
    /\ workers' = [workers EXCEPT
                      ![id].st = handleInteraction(@, Head(workers[id].inbox)),
                      ![id].inbox = Tail(@),
                      ![id].rot = Rotated(workers[id], Head(workers[id].inbox))]
    /\ UNCHANGED <<now, fg, renderers, controls, canvases, raf, statsQ, hist>>

\* the worker's requestAnimationFrame callback fires
WorkerFrame(B, id, frameTime) ==
    /\ workers[id].alive
    /\ workers[id].phase = "running"
    /\ WorkerRan(B, id, animateWorker(workers[id].st, now, frameTime), frameTime)

\* the other components of the page are not touched
OffscreenOnly == UNCHANGED <<inst, gpu, gl, rain, timer>>

\* the actions of the main thread that need no worker
MainThreadNext(B) ==
    \/ \E scene \in Scenes(DemoObjectCount), ft \in B.frameTimes :
            ToggleRenderMode(B, scene, ft) /\ OffscreenOnly
    \/ Unmount /\ OffscreenOnly
    \/ \E cb \in raf.pending, ft \in B.frameTimes :
            MainFrame(B, cb, ft) /\ OffscreenOnly
    \/ ControlsStart(B) /\ OffscreenOnly

\* the pointer events relayed to the worker, the worker, and the clock
WorkerNext(B) ==
    \/ \E d \in B.ticks : Tick(B, d)
    \/ \E pt \in B.mouse : MouseDown(B, pt[1], pt[2]) /\ OffscreenOnly
    \/ \E pt \in B.mouse : MouseMove(B, pt[1], pt[2]) /\ OffscreenOnly
    \/ MouseUp(B) /\ OffscreenOnly
    \/ \E d \in B.wheel : Wheel(B, d) /\ OffscreenOnly
    \/ DeliverStats /\ OffscreenOnly
    \/ \E id \in DOMAIN workers : WorkerLoad(id) /\ OffscreenOnly
    \/ \E id \in DOMAIN workers, scene \in Scenes(DemoObjectCount),
          ft \in B.frameTimes : WorkerInit(B, id, scene, ft) /\ OffscreenOnly
    \/ \E id \in DOMAIN workers : WorkerInteraction(id) /\ OffscreenOnly
    \/ \E id \in DOMAIN workers, ft \in B.frameTimes :
            WorkerFrame(B, id, ft) /\ OffscreenOnly

\* the lifecycle run: the mode button, every mode, unmount
Life ==
    [ toggles |-> LifeToggles, events |-> LifeEvents, frames |-> LifeFrames,
      time |-> LifeTime, frameTimes |-> {600}, ticks |-> {500},
      mouse |-> {<<0, 0>>}, wheel |-> {0} ]

Next == MainThreadNext(Life) \/ WorkerNext(Life)

Spec == InitOffscreen /\ [][Next]_vars

\* the statistics run: frames below and above the 1000/60 ms target, long
\* frames and pauses that close a window, in both render loops
Stats ==
    [ toggles |-> StatsToggles, events |-> StatsEvents, frames |-> StatsFrames,
      time |-> StatsTime, frameTimes |-> {16, 17, 1000}, ticks |-> {1000},
      mouse |-> {<<0, 0>>}, wheel |-> {0} ]

NextStats == MainThreadNext(Stats) \/ WorkerNext(Stats)

SpecStats == InitOffscreen /\ [][NextStats]_vars

\* the camera run: the component has just entered 'offscreen' mode; drags
\* and wheel turns of every size reach the worker between its frames
Camera ==
    [ toggles |-> 0, events |-> CameraEvents, frames |-> CameraFrames,
      time |-> CameraTime, frameTimes |-> {16}, ticks |-> {1000},
      mouse |-> {<<0, 0>>, <<3, 400>>}, wheel |-> {-100, 3000, -3000} ]

InitCamera ==
    /\ now = 1
    /\ Is(toggleRenderMode(InitialWorld, <<>>, 1, 0))
    /\ hist = [InitialHist EXCEPT !.toggles = 1]
    /\ OthersAbsent

NextCamera == WorkerNext(Camera)

SpecCamera == InitCamera /\ [][NextCamera]_vars

\* the drag run: a drag over several pointer positions, with the worker's
\* frames between the moves
Rotate ==
    [ toggles |-> 0, events |-> RotateEvents, frames |-> RotateFrames,
      time |-> RotateTime, frameTimes |-> {16}, ticks |-> {1000},
      mouse |-> {<<0, 0>>, <<3, 400>>, <<10, 0>>}, wheel |-> {100} ]

NextRotate == WorkerNext(Rotate)

SpecRotate == InitCamera /\ [][NextRotate]_vars

\* the run on full sample buffers: it starts after PrefillDelays interactions
\* were measured, in 'offscreen' mode with a running worker or in 'main' mode
Delay ==
    [ toggles |-> DelayToggles, events |-> DelayEvents, frames |-> DelayFrames,
      time |-> DelayTime, frameTimes |-> {16, 1000}, ticks |-> {500},
      mouse |-> {<<0, 0>>}, wheel |-> {100} ]

\* the samples taken so far, the oldest first
Prefill == [i \in 1..PrefillDelays |-> i]

PrefilledPerf(t) ==
    [NewPerf(t) EXCEPT !.frameTimes = [i \in 1..PrefillFrames |-> 16],
                       !.interactionDelays = Prefill,
                       !.interactionDelay = [num |-> SumSeq(Prefill),
                                             den |-> Len(Prefill)]]

\* 'offscreen' mode, the worker past its init message
PrefilledOffscreen(scene) ==
    [toggleRenderMode(InitialWorld, <<>>, DelayStart, 0) EXCEPT
        !.workers[1] = [@ EXCEPT
            !.phase = "running", !.inbox = <<>>, !.winStart = DelayStart,
            !.st = [NewWorkerState(DelayStart) EXCEPT
                       !.objectCount = DemoObjectCount,
                       !.objects = scene,
                       !.perf = PrefilledPerf(DelayStart)]]]

\* 'main' mode, the loop scheduled
PrefilledMain(scene) ==
    LET W1 == toggleRenderMode(InitialWorld, <<>>, DelayStart, 0)
        W2 == toggleRenderMode(W1, scene, DelayStart, 0)
    IN  [W2 EXCEPT !.fg.perfRef = PrefilledPerf(DelayStart)]

InitDelay ==
    /\ now = DelayStart
    /\ \E scene \in Scenes(DemoObjectCount) :
          Is(PrefilledOffscreen(scene)) \/ Is(PrefilledMain(scene))
    /\ hist = [InitialHist EXCEPT !.mainStart = DelayStart]
    /\ OthersAbsent

NextDelay == MainThreadNext(Delay) \/ WorkerNext(Delay)

SpecDelay == InitDelay /\ [][NextDelay]_vars

\* the run of the moving objects: both render loops, started on every scene
\* of cubes near and far from the boundary, no other event
Bounce ==
    [ toggles |-> 0, events |-> 0, frames |-> BounceFrames, time |-> BounceTime,
      frameTimes |-> {16}, ticks |-> {}, mouse |-> {}, wheel |-> {} ]

\* positions (Math.random() - 0.5) * 50 and velocities (Math.random() - 0.5) * 0.02,
\* in thousandths
BounceAxes ==
    [p : {-25000, -24995, 0, 24991, 24999}, v : {-10, -7, 0, 4, 9}]

BounceObjects ==
    { [ x |-> a, y |-> [p |-> -24990, v |-> -4], z |-> [p |-> 24999, v |-> 9],
        rot |-> [x |-> 0, y |-> 0, z |-> 0], rv |-> [x |-> 20, y |-> -10, z |-> 0] ]
      : a \in BounceAxes }

BounceScenes == [1..Min(DemoObjectCount, NumObjects) -> BounceObjects]

\* 'offscreen' mode, the worker past its init message and its first frame
BounceOffscreen(scene) ==
    [toggleRenderMode(InitialWorld, <<>>, 1, 0) EXCEPT
        !.workers[1] = [@ EXCEPT
            !.phase = "running", !.inbox = <<>>, !.winStart = 1,
            !.st = [NewWorkerState(1) EXCEPT !.objectCount = DemoObjectCount,
                                             !.objects = MoveObjects(scene)]]]

\* 'main' mode, past createScene and the first frame
BounceMain(scene) ==
    toggleRenderMode(toggleRenderMode(InitialWorld, <<>>, 1, 0), scene, 1, 0)

InitBounce ==
    /\ now = 1
    /\ \E scene \in BounceScenes : Is(BounceOffscreen(scene)) \/ Is(BounceMain(scene))
    /\ hist = InitialHist
    /\ OthersAbsent

NextBounce ==
    \/ \E id \in DOMAIN workers, ft \in Bounce.frameTimes :
            WorkerFrame(Bounce, id, ft) /\ OffscreenOnly
    \/ \E cb \in raf.pending, ft \in Bounce.frameTimes :
            MainFrame(Bounce, cb, ft) /\ OffscreenOnly

SpecBounce == InitBounce /\ [][NextBounce]_vars

----------------------------------------------------------------------------
(* OffscreenDemo: the claims *)

LiveWorkers == {id \in DOMAIN workers : workers[id].alive}

LiveRenderers == {r \in DOMAIN renderers : renderers[r].disposed = 0}

LiveControls == {c \in DOMAIN controls : controls[c].disposed = 0}

\* C1: over any sequence of mode toggles and unmount, at most one worker is
\* alive: exactly one while the mounted component is in 'offscreen' mode, and
\* none in any other mode or after unmount.
C1_OneLiveWorker ==
    Cardinality(LiveWorkers) =
        IF fg.mounted /\ fg.currentMode = "offscreen" THEN 1 ELSE 0

\* 'offscreen' was entered a second time: the first worker is gone, the second lives
C1_Witness ==
    /\ Len(workers) = 2
    /\ ~workers[1].alive
    /\ workers[2].alive
    /\ fg.currentMode = "offscreen"

\* C2: resources of two modes never coexist: while a worker is alive there is
\* no main-thread renderer, no OrbitControls and no scheduled main-thread
\* frame; while a renderer is alive there is no worker; in mode 'none' there
\* is none of them.
C2_NoCoexistence ==
    /\ LiveWorkers # {} =>
            LiveRenderers = {} /\ LiveControls = {} /\ raf.pending = {}
    /\ LiveRenderers # {} => LiveWorkers = {}
    /\ fg.currentMode = "none" =>
            LiveWorkers = {} /\ LiveRenderers = {} /\ LiveControls = {}
            /\ raf.pending = {}

\* a worker lives after a main-thread renderer was built, used and torn down
C2_Witness ==
    /\ LiveWorkers # {}
    /\ \E r \in DOMAIN renderers : renderers[r].renders > 0 /\ renderers[r].disposed = 1

\* C7: after any sequence of interaction messages the worker's pitch target
\* lies in [-pi/2, pi/2].
C7_PitchTargetClamped ==
    \A id \in LiveWorkers :
        /\ workers[id].st.cameraRotationTarget.x >= -(HalfPi * Scale)
        /\ workers[id].st.cameraRotationTarget.x <= HalfPi * Scale

\* a drag of 400 pixels downwards, 2 rad, was cut back to -pi/2
C7_Witness ==
    \E id \in LiveWorkers :
        workers[id].st.cameraRotationTarget.x = -(HalfPi * Scale)

\* C8: after every zoom message, whatever its delta, the worker's target
\* distance lies in [10, 100].
C8_DistanceTargetClamped ==
    \A id \in LiveWorkers :
        /\ workers[id].st.cameraDistanceTarget >= MinDistance * Scale
        /\ workers[id].st.cameraDistanceTarget <= MaxDistance * Scale

\* a wheel turn of 3000, 150 units, was cut back to 100
C8_Witness ==
    \E id \in LiveWorkers :
        workers[id].st.cameraDistanceTarget = MaxDistance * Scale

\* cur2 lies between cur and target, at 19/20 of cur's distance to target
Approaches(cur, cur2, target) ==
    LET d == target - cur
        d2 == target - cur2
    IN  /\ d >= 0 => 0 <= d2 /\ d2 <= d
        /\ d <= 0 => d <= d2 /\ d2 <= 0
        /\ (d - d2) * DampDen = d
        /\ d # 0 => d2 # d

\* C9: on every frame of the worker the current yaw and pitch stay on the
\* same side of their (unchanged) targets and their distances to the targets
\* shrink by the factor 1 - 0.05: strictly unless already zero, never
\* overshooting.
C9_DampingMonotone ==
    [][ \A id \in DOMAIN workers :
            ( /\ workers[id].alive
              /\ workers'[id].frameNo = workers[id].frameNo + 1 )
            => /\ workers'[id].st.cameraRotationTarget
                    = workers[id].st.cameraRotationTarget
               /\ Approaches(workers[id].st.cameraRotation.x,
                             workers'[id].st.cameraRotation.x,
                             workers[id].st.cameraRotationTarget.x)
               /\ Approaches(workers[id].st.cameraRotation.y,
                             workers'[id].st.cameraRotation.y,
                             workers[id].st.cameraRotationTarget.y) ]_vars

\* two frames have moved yaw and pitch part of the way to targets a drag set
C9_Witness ==
    \E id \in LiveWorkers :
        LET st == workers[id].st
        IN  /\ st.cameraRotationTarget.x # 0
            /\ st.cameraRotationTarget.y # 0
            /\ st.cameraRotation.x # 0
            /\ st.cameraRotation.y # 0
            /\ st.cameraRotation.x # st.cameraRotationTarget.x
            /\ st.cameraRotation.y # st.cameraRotationTarget.y
            /\ (st.cameraRotationTarget.x - st.cameraRotation.x) % (DampDen * DampDen) # 0

DroppedIn(window) ==
    Cardinality({i \in DOMAIN window : window[i] * 60 > 1000})

\* C10: the droppedFrames of each emitted snapshot, of the worker and of the
\* main-thread loop, is the number of frames since the previous snapshot
\* (the emitting frame included) that took more than 1000/60 ms.
C10_DroppedFramesCount ==
    hist.lastEmit.src # "none" =>
        hist.lastEmit.snap.droppedFrames = DroppedIn(hist.lastEmit.window)

\* the main-thread loop emitted its second snapshot, for a window of a short
\* frame and a long one
C10_Witness ==
    /\ hist.lastEmit.src = "main"
    /\ fg.statsCalls = 2
    /\ Len(hist.lastEmit.window) = 2
    /\ DroppedIn(hist.lastEmit.window) = 1

C10_WitnessWorker ==
    /\ hist.lastEmit.src = "worker"
    /\ Len(hist.lastEmit.window) = 3
    /\ DroppedIn(hist.lastEmit.window) = 2

\* the frame counter of the loop that emitted the last snapshot
EmitterFrames ==
    IF hist.lastEmit.src = "main" THEN fg.perfRef.frames
    ELSE workers[hist.lastEmit.worker].st.perf.frames

\* fps is x rounded to the nearest integer (halves up), x = frames * 1000 / elapsed
IsRounded(fps, frames, elapsed) ==
    /\ 2 * fps * elapsed - elapsed <= 2 * frames * 1000
    /\ 2 * frames * 1000 < 2 * fps * elapsed + elapsed

\* C11: the fps of every snapshot is frames * 1000 / elapsed of the window it
\* closes, rounded to the nearest integer, and the emitting loop's frame
\* counter is 0 right after the snapshot.
C11_FpsRounded ==
    [][ hist'.emits # hist.emits =>
          /\ IsRounded(hist'.lastEmit.snap.fps, Len(hist'.lastEmit.window),
                       hist'.lastEmit.elapsed)
          /\ EmitterFrames' = 0 ]_vars

\* a snapshot closed a window of two frames in 1016 ms: 1.97 frames a second
C11_Witness ==
    /\ hist.lastEmit.src # "none"
    /\ Len(hist.lastEmit.window) = 2
    /\ hist.lastEmit.elapsed = 1016
    /\ hist.lastEmit.snap.fps = 2
    /\ EmitterFrames = 0

\* C11 as stated: the fps of every snapshot is exactly frames * 1000 / elapsed
C11_FpsExact ==
    [][ hist'.emits # hist.emits =>
          /\ hist'.lastEmit.snap.fps * hist'.lastEmit.elapsed
                = Len(hist'.lastEmit.window) * 1000
          /\ EmitterFrames' = 0 ]_vars

\* the workers whose module state exists
LoadedWorkers == {id \in LiveWorkers : workers[id].phase # "loading"}

\* s[1] + ... + s[n]
RECURSIVE Total(_, _)
Total(s, n) == IF n = 0 THEN 0 ELSE Total(s, n - 1) + s[n]

\* the latency buffer of p holds at most 30 samples and p.interactionDelay
\* is their mean (0 while there are none)
DelayIsMean(p) ==
    LET ds == p.interactionDelays
    IN  /\ Len(ds) <= MaxInteractionDelays
        /\ ds = <<>> => p.interactionDelay.num = 0
        /\ ds # <<>> => p.interactionDelay.num * Len(ds)
                           = Total(ds, Len(ds)) * p.interactionDelay.den

\* a sample pushed on a full buffer evicted the oldest one
EvictsOldest(ds, ds2) ==
    (Len(ds) = MaxInteractionDelays /\ ds2 # ds /\ ds2 # <<>>) =>
        /\ Len(ds2) = MaxInteractionDelays
        /\ \A i \in 1..(MaxInteractionDelays - 1) : ds2[i] = ds[i + 1]

FullAndShifted(p) ==
    /\ Len(p.interactionDelays) = MaxInteractionDelays
    /\ p.interactionDelays[1] > 1

AxesOf(obj) == <<obj.x, obj.y, obj.z>>

\* one frame took axis a to a2: the velocity flipped exactly if the new
\* position is beyond the boundary, and a component that was beyond it has
\* come back and is inside again
Bounces(a, a2) ==
    /\ Abs(a2.p) > Boundary => a2.v = -a.v
    /\ Abs(a2.p) <= Boundary => a2.v = a.v
    /\ Abs(a.p) > Boundary => Abs(a2.p) < Abs(a.p) /\ Abs(a2.p) <= Boundary
    /\ Abs(a2.p) <= Boundary + Abs(a2.v)

ObjectsBounce(objs, objs2) ==
    \A i \in DOMAIN objs : \A k \in 1..3 :
        Bounces(AxesOf(objs[i])[k], AxesOf(objs2[i])[k])

\* C13: in every frame of either loop, a position component that ends beyond
\* 25 has its velocity flipped in that frame, a component that was beyond 25
\* comes back inside on the next frame, and none is ever beyond 25 plus one
\* velocity step.
C13_ObjectsBounce ==
    [][ /\ \A id \in LoadedWorkers :
              workers'[id].frameNo = workers[id].frameNo + 1 =>
                  ObjectsBounce(workers[id].st.objects, workers'[id].st.objects)
        /\ (hist'.mainFrames = hist.mainFrames + 1
            /\ DOMAIN fg'.objectsRef = DOMAIN fg.objectsRef) =>
                  ObjectsBounce(fg.objectsRef, fg'.objectsRef) ]_vars

\* a cube that went past +25 on x, had its velocity turned inwards, and has
\* run a frame since
CameBack(objs) ==
    \E i \in DOMAIN objs :
        /\ objs[i].x.v < 0
        /\ objs[i].x.p = 24999
        /\ objs[i].z.p <= Boundary /\ objs[i].z.v < 0

C13_Witness ==
    \/ CameBack(fg.objectsRef) /\ hist.mainFrames >= 2
    \/ \E id \in LoadedWorkers : CameBack(workers[id].st.objects)
                                 /\ workers[id].frameNo >= 2

\* the performance record of the loop that emitted the last snapshot
EmitterPerf ==
    IF hist.lastEmit.src = "main" THEN fg.perfRef
    ELSE workers[hist.lastEmit.worker].st.perf

\* the frame that took ft ms and emitted a snapshot took the record p to p2:
\* the three counters are 0, the frame-time buffer is p's with ft pushed, and
\* the latency buffer and value are p's unless the frame measured a sample
ResetsCountersOnly(p, p2, ft) ==
    /\ p2.frames = 0 /\ p2.droppedFrames = 0 /\ p2.maxDelay = 0
    /\ p2.frameTimes = Append(IF Len(p.frameTimes) < MaxFrameTimes
                              THEN p.frameTimes ELSE Tail(p.frameTimes), ft)
    /\ p.lastInteractionTime = 0 =>
          /\ p2.interactionDelays = p.interactionDelays
          /\ p2.interactionDelay = p.interactionDelay
    /\ p.lastInteractionTime # 0 =>
          /\ Len(p2.interactionDelays)
                = Min(Len(p.interactionDelays) + 1, MaxInteractionDelays)
          /\ DelayIsMean(p2)

\* C14: a frame that emits a snapshot leaves the frame counter, the dropped
\* frame counter and the max-delay tracker at 0 and does not clear the
\* frame-time buffer, the latency buffer or the last interactionDelay.
C14_SnapshotResets ==
    [][ (hist'.emits # hist.emits /\ hist'.toggles = hist.toggles) =>
          LET ft == hist'.lastEmit.window[Len(hist'.lastEmit.window)]
              id == hist'.lastEmit.worker
          IN  IF hist'.lastEmit.src = "main"
              THEN ResetsCountersOnly(fg.perfRef, fg'.perfRef, ft)
              ELSE ResetsCountersOnly(workers[id].st.perf, workers'[id].st.perf, ft)
      ]_vars

\* right after a snapshot that reported a dropped frame: the counters are 0,
\* the buffers are full
C14_Witness ==
    /\ hist.lastEmit.src # "none"
    /\ hist.lastEmit.snap.droppedFrames > 0
    /\ EmitterPerf.frames = 0
    /\ EmitterPerf.droppedFrames = 0
    /\ Len(EmitterPerf.frameTimes) = MaxFrameTimes
    /\ Len(EmitterPerf.interactionDelays) = MaxInteractionDelays

\* the main thread posted the interaction message m to a worker whose last
\* 'start' was or was not still open
WellFormedSend(m, open) ==
    /\ m.action \in {"start", "rotate", "end", "zoom"}
    /\ m.action = "rotate" => open
    /\ m.action \in {"rotate", "end"} => ~m.hasTs
    /\ m.action \in {"start", "zoom"} => m.hasTs /\ m.timestamp > 0

\* C15: every 'rotate' the relay posts follows a 'start' with no 'end' posted
\* in between; 'start' and 'zoom' carry a timestamp, 'rotate' and 'end' none.
C15_RelayMessages ==
    [][ \A id \in DOMAIN workers :
          ( /\ workers'[id].alive
            /\ Len(workers'[id].inbox) = Len(workers[id].inbox) + 1 )
          => WellFormedSend(workers'[id].inbox[Len(workers'[id].inbox)],
                            workers[id].open) ]_vars

\* a 'rotate' is waiting in a worker's inbox
C15_Witness ==
    \E id \in LiveWorkers : \E i \in DOMAIN workers[id].inbox :
        /\ workers[id].inbox[i].action = "rotate"
        /\ workers[id].inbox[i].deltaY = 400

\* C16: in 'main' mode no interaction timestamp is ever pending, no latency
\* sample is ever pushed and the interaction delay stays 0.
C16_NoMainLatency ==
    fg.currentMode = "main" =>
        /\ fg.perfRef.lastInteractionTime = 0
        /\ fg.perfRef.interactionDelays = <<>>
        /\ fg.perfRef.interactionDelay.num = 0
        /\ fg.stats.interactionDelay = 0

----------------------------------------------------------------------------
(* InstancedMeshDemo.  Every run of its effect on renderMode builds a scene,  *)
(* a renderer and an animate closure of its own; inst.loops holds them in     *)
(* the order of the runs, the last one being the current effect's.            *)

\* the closure state of one run of the effect, before its first frame
NewInstLoop(mode, t) ==
    [ mode |-> mode,                \* renderMode, as the closure captured it
      meshes |-> IF mode = "regular" THEN CubeCount ELSE 0,
      instancedMesh |-> mode = "instanced",
      disposed |-> FALSE,           \* renderer.dispose() was called
      scheduled |-> FALSE,          \* a requestAnimationFrame callback is pending
      frameCount |-> 0,
      lastTime |-> t,
      frames |-> 0,                 \* history: frames run
      rendersDisposed |-> 0 ]       \* history: renders on the disposed renderer

\* animate of loop i, called at time t
instAnimate(I, i, t) ==
    LET L == I.loops[i]
        count == L.frameCount + 1
        due == t - L.lastTime >= StatsPeriod
    IN  [I EXCEPT !.loops[i] =
                      [L EXCEPT !.scheduled = TRUE,
                                !.frameCount = IF due THEN 0 ELSE count,
                                !.lastTime = IF due THEN t ELSE @,
                                !.frames = @ + 1,
                                !.rendersDisposed = IF L.disposed THEN @ + 1 ELSE @],
                  !.fps = IF due /\ I.mounted THEN count ELSE @]

\* the body of the effect: scene setup, clearScene, the mode's meshes, animate()
instEffect(I, t) ==
    LET I1 == [I EXCEPT !.loops = Append(@, NewInstLoop(I.renderMode, t))]
    IN  instAnimate(I1, Len(I1.loops), t)

\* the cleanup function of the current effect run
instCleanup(I) ==
    [I EXCEPT !.loops[Len(I.loops)] =
                  [@ EXCEPT !.meshes = 0, !.instancedMesh = FALSE, !.disposed = TRUE]]

InitialInst ==
    instEffect([mounted |-> TRUE, renderMode |-> "none", fps |-> 0, loops |-> <<>>,
                changes |-> 0], 1)

\* no component but InstancedMeshDemo is on the page
InitInst ==
    /\ now = 1
    /\ inst = InitialInst
    /\ Is([InitialWorld EXCEPT !.fg.mounted = FALSE, !.fg.canvasRef = 0])
    /\ hist = InitialHist
    /\ gpu = [mounted |-> FALSE]
    /\ gl = [mounted |-> FALSE]
    /\ rain = [mounted |-> FALSE]
    /\ timer = [mounted |-> FALSE]

\* a click on one of the three mode buttons
SetRenderMode(mode) ==
    /\ inst.mounted
    /\ mode # inst.renderMode
    /\ inst.changes < InstChanges
    /\ inst' = instEffect([instCleanup(inst) EXCEPT !.renderMode = mode,
                                                    !.changes = @ + 1], now)
    /\ UNCHANGED <<now, offVars, gpu, gl, rain, timer>>

InstUnmount ==
    /\ inst.mounted
    /\ inst' = [instCleanup(inst) EXCEPT !.mounted = FALSE]
    /\ UNCHANGED <<now, offVars, gpu, gl, rain, timer>>

\* the pending requestAnimationFrame callback of loop i fires
InstFrame(i) ==
    /\ inst.loops[i].scheduled
    /\ inst.loops[i].frames < InstFrames
    /\ inst' = instAnimate([inst EXCEPT !.loops[i].scheduled = FALSE], i, now)
    /\ UNCHANGED <<now, offVars, gpu, gl, rain, timer>>

InstClock == [time |-> InstTime]

NextInst ==
    \/ \E d \in {700} : Tick(InstClock, d)
    \/ \E mode \in {"none", "regular", "instanced"} : SetRenderMode(mode)
    \/ InstUnmount
    \/ \E i \in DOMAIN inst.loops : InstFrame(i)

SpecInst == InitInst /\ [][NextInst]_vars

ScheduledInstLoops == {i \in DOMAIN inst.loops : inst.loops[i].scheduled}

\* C3: every change of the render mode cancels the previous mode's pending
\* frame callback, so at most one animate loop is scheduled.
C3_OneAnimateLoop == Cardinality(ScheduledInstLoops) <= 1

----------------------------------------------------------------------------
(* WebGPUDemo.  gpu.canvases holds every <canvas> React created (one per     *)
(* key), gpu.sets every set of GPU objects initWebGPU created (pipeline,     *)
(* vertex, object and frame buffers, bind groups), gpu.loops the render      *)
(* closure of every run of the render-loop effect, gpu.inits the calls of    *)
(* initWebGPU that reached their first await.                                *)

NewGpuCanvas == [size |-> 0, context |-> "none", attached |-> TRUE]

\* handleResize, with the rendererType its closure captured
handleResize(G, type) ==
    IF G.canvasRef = 0 THEN G
    ELSE LET G1 == [G EXCEPT !.canvases[G.canvasRef].size = G.windowSize]
         IN  IF type = "webgpu" /\ G.contextRef # 0 /\ G.deviceRef # 0
             THEN [G1 EXCEPT !.canvases[G.contextRef].context = "configured"]
             ELSE G1

\* initWebGPU up to its first await
initWebGPU(G, type, t) ==
    IF type # "webgpu"
    THEN IF G.contextRef # 0
         THEN [G EXCEPT !.canvases[G.contextRef].context = "unconfigured"]
         ELSE G
    ELSE IF G.canvasRef = 0 THEN G
    ELSE IF ~G.hasGpu
    THEN [G EXCEPT !.inits = Append(@, [pc |-> "noGpu", startTime |-> t])]
    ELSE [G EXCEPT !.inits = Append(@, [pc |-> "adapter", startTime |-> t])]

\* initWebGPU from the device on: context, pipeline, buffers, bind groups,
\* controls; context tells whether getContext('webgpu') returns one
initWebGPUResources(G, i, device, context, t) ==
    LET G1 == [G EXCEPT !.deviceRef = device]
    IN  IF G.canvasRef = 0
        THEN [G1 EXCEPT !.inits[i].pc = "threw"]
        ELSE IF ~context
        THEN [G1 EXCEPT !.inits[i].pc = "noContext", !.drawnSinceFail = FALSE]
        ELSE LET G2 == [G1 EXCEPT !.contextRef = G.canvasRef,
                                  !.canvases[G.canvasRef].context = "configured",
                                  !.sets = Append(@, [device |-> device, destroyed |-> FALSE]),
                                  !.setRef = Len(G.sets) + 1]
                 G3 == IF G2.controlsRef # 0
                       THEN [G2 EXCEPT !.controls[G2.controlsRef].disposed = TRUE]
                       ELSE G2
             IN  [G3 EXCEPT !.controls = Append(@, [canvas |-> G.canvasRef, disposed |-> FALSE]),
                            !.controlsRef = Len(G3.controls) + 1,
                            !.loadTime = t - G.inits[i].startTime,
                            !.inits[i].pc = "done"]

\* initWebGPU after requestAdapter() resolved
initWebGPUAdapter(G, i, adapter, context, t) ==
    IF ~adapter
    THEN [G EXCEPT !.inits[i].pc = "noAdapter", !.drawnSinceFail = FALSE]
    ELSE IF G.deviceRef # 0 THEN initWebGPUResources(G, i, G.deviceRef, context, t)
    ELSE [G EXCEPT !.inits[i].pc = "device"]

\* initWebGPU after requestDevice() resolved
initWebGPUDevice(G, i, context, t) ==
    initWebGPUResources([G EXCEPT !.devices = @ + 1], i, G.devices + 1, context, t)

NewGpuLoop(fps, t) ==
    [ fps |-> fps,                  \* the fps state, as the closure captured it
      depthTexture |-> "none",      \* "none", "live" or "destroyed"
      currentSize |-> 0,
      frameCount |-> 0,
      lastTime |-> t,
      scheduled |-> FALSE,
      frames |-> 0,                 \* history: calls of render
      destroyedUses |-> 0 ]         \* history: passes on a destroyed depth texture

\* render of loop i, called at time t
render(G, i, t) ==
    LET L == G.loops[i]
        G0 == [G EXCEPT !.loops[i].frames = @ + 1]
    IN  IF ~G.isMountedRef THEN G0
        ELSE
        LET G1 == [G0 EXCEPT !.loops[i].scheduled = TRUE, !.animationIdRef = i]
        IN  IF G.rendererTypeRef # "webgpu"
            THEN IF L.fps # 0 THEN [G1 EXCEPT !.fps = 0] ELSE G1
            ELSE IF G.deviceRef = 0 \/ G.contextRef = 0 \/ G.setRef = 0 \/ G.canvasRef = 0
            THEN G1
            ELSE
            LET size == G.canvases[G.canvasRef].size
                fresh == size # L.currentSize \/ L.depthTexture = "none"
                G2 == IF fresh
                      THEN [G1 EXCEPT !.loops[i].depthTexture = "live",
                                      !.loops[i].currentSize = size]
                      ELSE G1
            IN  IF G.canvases[G.contextRef].context # "configured"
                THEN G2       \* getCurrentTexture() throws
                ELSE
                LET count == L.frameCount + 1
                    due == t >= L.lastTime + StatsPeriod
                    used == G2.loops[i].depthTexture = "destroyed"
                IN  [G2 EXCEPT !.drawnSinceFail = TRUE,
                               !.loops[i].frameCount = IF due THEN 0 ELSE count,
                               !.loops[i].lastTime = IF due THEN t ELSE @,
                               !.loops[i].destroyedUses = IF used THEN @ + 1 ELSE @,
                               !.fps = IF due THEN RoundDiv(count * 1000, t - L.lastTime)
                                       ELSE @]

\* the cleanup of the render-loop effect
renderCleanup(G) ==
    LET i == Len(G.loops)
    IN  IF G.loops[i].depthTexture = "none" THEN G
        ELSE [G EXCEPT !.loops[i].depthTexture = "destroyed"]

\* the three effects on rendererType, run after a render with the type
gpuEffects(G, type, t) ==
    LET G1 == initWebGPU(G, type, t)
        G2 == handleResize([G1 EXCEPT !.listener = [on |-> TRUE, type |-> type]], type)
        G3 == [G2 EXCEPT !.loops = Append(@, NewGpuLoop(G.fps, t)),
                         !.rendererTypeRef = type]
    IN  render(G3, Len(G3.loops), t)

\* handleRendererChange: the re-render replaces the canvas (its key changed),
\* then the cleanups and the effects of the new render run
handleRendererChange(G, type, t) ==
    LET old == G.canvasRef
        G1 == [G EXCEPT !.rendererType = type,
                        !.drawnSinceFail = FALSE,
                        !.setsAtChange = Len(G.sets),
                        !.canvases = Append([@ EXCEPT ![old].attached = FALSE], NewGpuCanvas),
                        !.canvasRef = Len(G.canvases) + 1,
                        !.listener.on = FALSE]
    IN  gpuEffects(renderCleanup(G1), type, t)

gpuUnmount(G) ==
    LET G1 == [G EXCEPT !.mounted = FALSE, !.isMountedRef = FALSE,
                        !.canvases[G.canvasRef].attached = FALSE,
                        !.canvasRef = 0, !.listener.on = FALSE]
        G2 == IF G1.animationIdRef # 0
              THEN [G1 EXCEPT !.loops[G1.animationIdRef].scheduled = FALSE]
              ELSE G1
        G3 == IF G2.controlsRef # 0
              THEN [G2 EXCEPT !.controls[G2.controlsRef].disposed = TRUE]
              ELSE G2
    IN  renderCleanup(G3)

\* hasGpu: the browser has navigator.gpu; drawnSinceFail: a draw was
\* submitted since the last change of type or failure of initWebGPU;
\* setsAtChange: the pipelines and buffers built before the last change of type
InitialGpu(hasGpu) ==
    gpuEffects([ mounted |-> TRUE, isMountedRef |-> TRUE,
                 hasGpu |-> hasGpu, drawnSinceFail |-> FALSE, setsAtChange |-> 0,
                 rendererType |-> "none", rendererTypeRef |-> "none",
                 fps |-> 0, loadTime |-> 0,
                 canvases |-> <<NewGpuCanvas>>, canvasRef |-> 1, windowSize |-> 1,
                 devices |-> 0, deviceRef |-> 0, contextRef |-> 0,
                 sets |-> <<>>, setRef |-> 0,
                 controls |-> <<>>, controlsRef |-> 0,
                 animationIdRef |-> 0, loops |-> <<>>, inits |-> <<>>,
                 listener |-> [on |-> FALSE, type |-> "none"],
                 changes |-> 0, resizes |-> 0 ], "none", 1)

\* no component but WebGPUDemo is on the page
InitGpu ==
    /\ now = 1
    /\ \E hasGpu \in BOOLEAN : gpu = InitialGpu(hasGpu)
    /\ Is([InitialWorld EXCEPT !.fg.mounted = FALSE, !.fg.canvasRef = 0])
    /\ hist = InitialHist
    /\ inst = [mounted |-> FALSE]
    /\ gl = [mounted |-> FALSE]
    /\ rain = [mounted |-> FALSE]
    /\ timer = [mounted |-> FALSE]

GpuOnly == UNCHANGED <<now, offVars, inst, gl, rain, timer>>

SetRendererType(type) ==
    /\ gpu.mounted
    /\ type # gpu.rendererType
    /\ gpu.changes < GpuChanges
    /\ gpu' = handleRendererChange([gpu EXCEPT !.changes = @ + 1], type, now)
    /\ GpuOnly

GpuAdapterResolved(i, adapter, context) ==
    /\ gpu.inits[i].pc = "adapter"
    /\ gpu' = initWebGPUAdapter(gpu, i, adapter, context, now)
    /\ GpuOnly

GpuDeviceResolved(i, context) ==
    /\ gpu.inits[i].pc = "device"
    /\ gpu' = initWebGPUDevice(gpu, i, context, now)
    /\ GpuOnly

GpuFrame(i) ==
    /\ gpu.loops[i].scheduled
    /\ gpu.loops[i].frames < GpuFrames
    /\ gpu' = render([gpu EXCEPT !.loops[i].scheduled = FALSE], i, now)
    /\ GpuOnly

GpuResize(size) ==
    /\ gpu.listener.on
    /\ size # gpu.windowSize
    /\ gpu.resizes < GpuResizes
    /\ gpu' = handleResize([gpu EXCEPT !.windowSize = size, !.resizes = @ + 1],
                           gpu.listener.type)
    /\ GpuOnly

GpuUnmount ==
    /\ gpu.mounted
    /\ gpu' = gpuUnmount(gpu)
    /\ GpuOnly

GpuClock == [time |-> GpuTime]

NextGpu ==
    \/ \E d \in {1000} : Tick(GpuClock, d)
    \/ \E type \in {"none", "webgpu"} : SetRendererType(type)
    \/ \E i \in DOMAIN gpu.inits : \E adapter, context \in BOOLEAN :
            GpuAdapterResolved(i, adapter, context)
    \/ \E i \in DOMAIN gpu.inits : \E context \in BOOLEAN :
            GpuDeviceResolved(i, context)
    \/ \E i \in DOMAIN gpu.loops : GpuFrame(i)
    \/ \E size \in {1, 2} : GpuResize(size)
    \/ GpuUnmount

SpecGpu == InitGpu /\ [][NextGpu]_vars

ScheduledGpuLoops == {i \in DOMAIN gpu.loops : gpu.loops[i].scheduled}

LiveBufferSets == {i \in DOMAIN gpu.sets : ~gpu.sets[i].destroyed}

\* C4: every change of the renderer type cancels the previous per-frame
\* callback, so at most one render loop is scheduled.
C4_OneRenderLoop == Cardinality(ScheduledGpuLoops) <= 1

\* C6: leaving 'webgpu' disposes the buffers, pipeline and bind groups made
\* for it: no set is live while the type is 'none', and never more than one.
C6_ResourcesDisposed ==
    /\ gpu.rendererType # "webgpu" => LiveBufferSets = {}
    /\ Cardinality(LiveBufferSets) <= 1

----------------------------------------------------------------------------
(* WebGLDemo.  initScene and switchRenderer are async functions without an   *)
(* await: each runs to its end inside the effect that calls it, and what it  *)
(* returns is a promise the effect drops.                                    *)

\* animate of initScene, called at time t
animateGl(G, t) ==
    IF ~G.isMounted THEN G
    ELSE
    LET G1 == [G EXCEPT !.scheduled = TRUE,
                        !.frames = @ + 1,
                        !.lastRendererTypeRef = G.rendererTypeRef]
    IN  IF G.rendererTypeRef # "none" /\ G.rendererRef # 0
        THEN LET count == G.frameCount + 1
                 due == t >= G.lastTime + StatsPeriod
             IN  [G1 EXCEPT !.renderers[G.rendererRef].renders = @ + 1,
                            !.frameCount = IF due THEN 0 ELSE count,
                            !.lastTime = IF due THEN t ELSE @,
                            !.fps = IF due /\ G.isMounted /\ G.mounted
                                    THEN RoundDiv(count * 1000, t - G.lastTime)
                                    ELSE @]
        ELSE IF G.fpsClosure # 0 /\ G.isMounted /\ G.mounted
             THEN [G1 EXCEPT !.fps = 0]
             ELSE G1

\* handleResize of initScene
handleResizeGl(G) ==
    IF G.rendererRef # 0 /\ G.mounted
    THEN [G EXCEPT !.renderers[G.rendererRef].size = G.windowSize]
    ELSE G

\* initScene: scene, camera, lights, the first animate(), the resize listener
initScene(G, t) ==
    LET G1 == [G EXCEPT !.sceneRef = TRUE, !.isMounted = TRUE, !.fpsClosure = G.fps,
                        !.frameCount = 0, !.lastTime = t]
    IN  [animateGl(G1, t) EXCEPT !.listener = TRUE]

\* cleanup of switchRenderer
cleanupGl(G) ==
    LET G1 == IF G.meshesGroupRef # 0 /\ G.sceneRef
              THEN [G EXCEPT !.groups[G.meshesGroupRef].disposed = TRUE,
                             !.meshesGroupRef = 0]
              ELSE G
        G2 == IF G1.rendererRef # 0
              THEN [G1 EXCEPT !.renderers[G1.rendererRef].disposed = TRUE,
                              !.rendererRef = 0]
              ELSE G1
    IN  IF G2.controlsRef # 0
        THEN [G2 EXCEPT !.controls[G2.controlsRef].disposed = TRUE, !.controlsRef = 0]
        ELSE G2

switchRenderer(G, type) ==
    IF G.canvasRef = 0 THEN G
    ELSE
    LET G1 == cleanupGl(G)
        G2 == IF type = "webgl"
              THEN [G1 EXCEPT !.renderers = Append(@, [canvas |-> G.canvasRef,
                                                       size |-> G.windowSize,
                                                       disposed |-> FALSE,
                                                       renders |-> 0]),
                              !.rendererRef = Len(G1.renderers) + 1,
                              !.controls = Append(@, [canvas |-> G.canvasRef,
                                                      disposed |-> FALSE]),
                              !.controlsRef = Len(G1.controls) + 1,
                              !.builds = @ + 1]
              ELSE G1
    IN  [G2 EXCEPT !.loadTime = 0, !.rendererTypeRef = type]

\* the frame callback switchRenderer requested: build the meshes
buildMeshesGroup(G) ==
    IF ~G.sceneRef THEN [G EXCEPT !.builds = @ - 1]
    ELSE [G EXCEPT !.builds = @ - 1,
                   !.groups = Append(@, [disposed |-> FALSE]),
                   !.meshesGroupRef = Len(G.groups) + 1]

\* handleRendererChange of WebGLDemo: the re-render replaces the canvas
handleRendererChangeGl(G, type) ==
    switchRenderer([G EXCEPT !.rendererType = type,
                             !.canvases = Append([@ EXCEPT ![G.canvasRef].attached = FALSE],
                                                 [attached |-> TRUE]),
                             !.canvasRef = Len(G.canvases) + 1], type)

\* React unmounts the component: neither effect registered a cleanup
unmountGl(G) ==
    [G EXCEPT !.mounted = FALSE,
              !.canvases[G.canvasRef].attached = FALSE,
              !.canvasRef = 0]

InitialGl ==
    switchRenderer(
        initScene([ mounted |-> TRUE, isMounted |-> FALSE,
                    rendererType |-> "none", rendererTypeRef |-> "none",
                    lastRendererTypeRef |-> "none",
                    fps |-> 0, fpsClosure |-> 0, loadTime |-> 0,
                    canvases |-> <<[attached |-> TRUE]>>, canvasRef |-> 1,
                    windowSize |-> 1, sceneRef |-> FALSE,
                    renderers |-> <<>>, rendererRef |-> 0,
                    controls |-> <<>>, controlsRef |-> 0,
                    groups |-> <<>>, meshesGroupRef |-> 0, builds |-> 0,
                    scheduled |-> FALSE, frameCount |-> 0, lastTime |-> 0, frames |-> 0,
                    listener |-> FALSE, changes |-> 0, resizes |-> 0 ], 1),
        "none")

\* no component but WebGLDemo is on the page
InitGl ==
    /\ now = 1
    /\ gl = InitialGl
    /\ Is([InitialWorld EXCEPT !.fg.mounted = FALSE, !.fg.canvasRef = 0])
    /\ hist = InitialHist
    /\ inst = [mounted |-> FALSE]
    /\ gpu = [mounted |-> FALSE]
    /\ rain = [mounted |-> FALSE]
    /\ timer = [mounted |-> FALSE]

GlOnly == UNCHANGED <<now, offVars, inst, gpu, rain, timer>>

GlSetRendererType(type) ==
    /\ gl.mounted
    /\ type # gl.rendererType
    /\ gl.changes < GlChanges
    /\ gl' = handleRendererChangeGl([gl EXCEPT !.changes = @ + 1], type)
    /\ GlOnly

GlFrame ==
    /\ gl.scheduled
    /\ gl.frames <= GlFrames
    /\ gl' = animateGl([gl EXCEPT !.scheduled = FALSE], now)
    /\ GlOnly

GlBuildMeshes ==
    /\ gl.builds > 0
    /\ gl' = buildMeshesGroup(gl)
    /\ GlOnly

GlResize(size) ==
    /\ gl.listener
    /\ size # gl.windowSize
    /\ gl.resizes < GlResizes
    /\ gl' = handleResizeGl([gl EXCEPT !.windowSize = size, !.resizes = @ + 1])
    /\ GlOnly

GlUnmount ==
    /\ gl.mounted
    /\ gl' = unmountGl(gl)
    /\ GlOnly

GlClock == [time |-> GlTime]

NextGl ==
    \/ \E d \in {1000} : Tick(GlClock, d)
    \/ \E type \in {"none", "webgl"} : GlSetRendererType(type)
    \/ GlFrame
    \/ GlBuildMeshes
    \/ \E size \in {1, 2} : GlResize(size)
    \/ GlUnmount

SpecGl == InitGl /\ [][NextGl]_vars

\* C5: once WebGLDemo is unmounted its animate loop is no longer scheduled
\* and its window resize listener is removed.
C5_TornDownOnUnmount == ~gl.mounted => ~gl.scheduled /\ ~gl.listener

\* the call of initWebGPU for the current renderer type failed
InitFailed ==
    /\ gpu.mounted
    /\ gpu.rendererType = "webgpu"
    /\ gpu.inits # <<>>
    /\ gpu.inits[Len(gpu.inits)].pc \in {"noGpu", "noAdapter", "noContext"}

\* C17: once initWebGPU has failed for the current type, no draw is
\* submitted and the displayed fps is 0, and the type change started
\* initWebGPU only once.
C17_FailedInitIdle ==
    /\ InitFailed => ~gpu.drawnSinceFail /\ gpu.fps = 0
    /\ Len(gpu.inits) <= gpu.changes

----------------------------------------------------------------------------
(* OffscreenDemo: the life of a mode's resources *)

\* no worker of W was terminated twice, no renderer or OrbitControls of W
\* was disposed twice
AtMostOnce(W) ==
    /\ \A id \in DOMAIN W.workers : W.workers[id].terminated <= 1
    /\ \A r \in DOMAIN W.renderers : W.renderers[r].disposed <= 1
    /\ \A c \in DOMAIN W.controls : W.controls[c].disposed <= 1

\* every ref of the component is null or names an object that exists
RefsDefined ==
    /\ fg.workerRef \in {0} \cup DOMAIN workers
    /\ fg.rendererRef \in {0} \cup DOMAIN renderers
    /\ fg.controlsRef \in {0} \cup DOMAIN controls

\* C18: in every state cleanupWorker and cleanupMainThread can be called, a
\* second call changes nothing, and no worker is terminated twice and no
\* renderer or OrbitControls disposed twice.
C18_CleanupIdempotent ==
    /\ RefsDefined
    /\ AtMostOnce(World)
    /\ AtMostOnce(cleanupMainThread(cleanupWorker(World)))
    /\ cleanupWorker(cleanupWorker(World)) = cleanupWorker(World)
    /\ cleanupMainThread(cleanupMainThread(World)) = cleanupMainThread(World)

\* mode 'none' was entered from 'main': the effect's cleanup and then the
\* effect of 'none' both ran the two functions, on a worker and a renderer
\* that had been torn down once
C18_Witness ==
    /\ fg.currentMode = "none"
    /\ hist.toggles = 3
    /\ \E id \in DOMAIN workers : workers[id].terminated = 1
    /\ \E r \in DOMAIN renderers : renderers[r].disposed = 1
    /\ \E c \in DOMAIN controls : controls[c].disposed = 1

\* the refs name objects that are in use, and no disposed renderer rendered
RefsLive ==
    /\ fg.workerRef # 0 => workers[fg.workerRef].alive
    /\ fg.rendererRef # 0 => renderers[fg.rendererRef].disposed = 0
    /\ fg.controlsRef # 0 => controls[fg.controlsRef].disposed = 0
    /\ \A r \in DOMAIN renderers : renderers[r].rendersDisposed = 0

\* a step revives nothing: a terminated worker and a disposed renderer or
\* OrbitControls stay as they are, and a ref that changes to an object names
\* one that this step constructed
NoWayBack ==
    /\ \A id \in DOMAIN workers :
            ~workers[id].alive => id \in DOMAIN workers' /\ workers'[id] = workers[id]
    /\ \A r \in DOMAIN renderers :
            renderers[r].disposed > 0 =>
                r \in DOMAIN renderers' /\ renderers'[r] = renderers[r]
    /\ \A c \in DOMAIN controls :
            controls[c].disposed > 0 =>
                c \in DOMAIN controls' /\ controls'[c] = controls[c]
    /\ fg'.workerRef \notin {0, fg.workerRef} =>
            /\ fg'.workerRef \notin DOMAIN workers
            /\ workers'[fg'.workerRef].phase = "loading"
            /\ workers'[fg'.workerRef].frameNo = 0
    /\ fg'.rendererRef \notin {0, fg.rendererRef} =>
            fg'.rendererRef \notin DOMAIN renderers
    /\ fg'.controlsRef \notin {0, fg.controlsRef} =>
            fg'.controlsRef \notin DOMAIN controls

\* C19: a mode's worker, renderer and OrbitControls go from constructed to
\* running to terminated or disposed and never back: once terminated or
\* disposed they never render again, and entering a mode constructs new ones.
C19_NoWayBack == [](RefsLive) /\ [][NoWayBack]_vars

\* 'offscreen' was entered again after 'main': the first worker and the
\* renderer are dead after having rendered, the second worker renders
C19_Witness ==
    /\ Len(workers) = 2
    /\ ~workers[1].alive
    /\ workers[2].frameNo > 0
    /\ \E r \in DOMAIN renderers : renderers[r].renders > 0 /\ renderers[r].disposed > 0

----------------------------------------------------------------------------
(* offscreen-worker.ts: rotation *)

\* C20: the yaw target of a worker is its initial value 0 minus 0.005 times
\* the sum of the deltaX of the rotate messages it handled while dragging,
\* whatever frames ran between them.
C20_RotationAdditive ==
    \A id \in LoadedWorkers :
        workers[id].st.cameraRotationTarget.y =
            -(RotPerPixel * Scale * workers[id].rot.sum)

\* two rotate messages of 3 and 7 pixels were applied, with a frame between
C20_Witness ==
    \E id \in LoadedWorkers :
        /\ workers[id].rot.n = 2
        /\ workers[id].rot.sum = 10
        /\ workers[id].rot.first < workers[id].rot.last

----------------------------------------------------------------------------
(* offscreen-worker.ts: the latency sample of a frame *)

\* a frame that started at t took the perf record p to p2: a pending
\* timestamp gave one sample t - timestamp, no pending timestamp gave none
ConsumedOnce(p, p2, t) ==
    LET ds == p.interactionDelays
        ds2 == p2.interactionDelays
        sample == t - p.lastInteractionTime
    IN  /\ p2.lastInteractionTime = 0
        /\ p.lastInteractionTime > 0 =>
                ds2 = IF Len(ds) < MaxInteractionDelays
                      THEN Append(ds, sample)
                      ELSE Append(Tail(ds), sample)
        /\ p.lastInteractionTime = 0 =>
                ds2 = ds /\ p2.interactionDelay = p.interactionDelay

----------------------------------------------------------------------------
(* The max-delay tracker of both render loops *)

\* the largest duration of a window of frames
MaxOf(window) ==
    CHOOSE m \in {window[i] : i \in DOMAIN window} :
        \A i \in DOMAIN window : window[i] <= m

\* C22: the maxDelay of every snapshot, of the worker and of the main-thread
\* loop, is the largest frame duration since the previous snapshot (as
\* toFixed(2) writes it), and the emitting loop's tracker is 0 right after.
C22_MaxDelayOfWindow ==
    [][ hist'.emits # hist.emits =>
          /\ hist'.lastEmit.snap.maxDelay = ToFixed2(MaxOf(hist'.lastEmit.window), 1)
          /\ EmitterPerf'.maxDelay = 0 ]_vars

\* a second snapshot closed a window of a 17 ms and a 16 ms frame, after a
\* first window that held a frame of a second
C22_Witness ==
    /\ hist.emits = 2
    /\ hist.lastEmit.window = <<17, 16>>
    /\ hist.lastEmit.snap.maxDelay = 1700
    /\ EmitterPerf.maxDelay = 0

----------------------------------------------------------------------------
(* WebGPUDemo: an initWebGPU that outlives its renderer type *)

\* no call of initWebGPU is waiting for its adapter or its device
NoPendingInit ==
    \A i \in DOMAIN gpu.inits : gpu.inits[i].pc \notin {"adapter", "device"}

\* C23: when the type is 'none' and every initWebGPU started before has run
\* to its end, the current canvas has no configured WebGPU context and no
\* pipeline or buffer was created since the change to 'none'.
C23_StaleInitBuildsNothing ==
    (gpu.mounted /\ gpu.rendererType = "none" /\ gpu.inits # <<>> /\ NoPendingInit) =>
        /\ gpu.canvases[gpu.canvasRef].context # "configured"
        /\ Len(gpu.sets) = gpu.setsAtChange

----------------------------------------------------------------------------
(* MatrixRainShader.  One effect, run on mount: it builds the renderer, the   *)
(* shader material and the plane, starts animate and listens to 'resize'.     *)

\* animate: requestAnimationFrame(animate), iTime = clock.getElapsedTime(),
\* renderer.render; the frame is called at time t
rainAnimate(R, t) ==
    [R EXCEPT !.scheduled = TRUE,
              !.iTime = t - R.clockStart,
              !.frames = @ + 1,
              !.rendersDisposed = IF R.disposed THEN @ + 1 ELSE @]

\* handleResize, with the width the container has now
rainHandleResize(R, width) ==
    IF ~R.containerRef THEN R
    ELSE [R EXCEPT !.size = width, !.iResolution = width]

\* the body of the effect, run at time t in a container of the given width
rainEffect(width, t) ==
    [rainAnimate([ mounted |-> TRUE, containerRef |-> TRUE, attached |-> TRUE,
                   disposed |-> FALSE, scheduled |-> FALSE, listener |-> FALSE,
                   size |-> width, iResolution |-> width, clockStart |-> t,
                   iTime |-> 0, frames |-> 0, rendersDisposed |-> 0,
                   resizes |-> 0 ], t)
        EXCEPT !.listener = TRUE]

\* the cleanup the effect returns; React has cleared containerRef before it runs
rainCleanup(R) ==
    [R EXCEPT !.listener = FALSE, !.disposed = TRUE]

\* unmount: the container leaves the page with the canvas in it
rainUnmount(R) ==
    rainCleanup([R EXCEPT !.mounted = FALSE, !.containerRef = FALSE,
                          !.attached = FALSE])

RainWidths == {300, 600}

\* no component but MatrixRainShader is on the page
InitRain ==
    /\ now = 1
    /\ \E width \in RainWidths : rain = rainEffect(width, 1)
    /\ Is([InitialWorld EXCEPT !.fg.mounted = FALSE, !.fg.canvasRef = 0])
    /\ hist = InitialHist
    /\ inst = [mounted |-> FALSE]
    /\ gpu = [mounted |-> FALSE]
    /\ gl = [mounted |-> FALSE]
    /\ timer = [mounted |-> FALSE]

RainOnly == UNCHANGED <<now, offVars, inst, gpu, gl, timer>>

\* the pending requestAnimationFrame callback fires
RainFrame ==
    /\ rain.scheduled
    /\ rain.frames < RainFrames
    /\ rain' = rainAnimate(rain, now)
    /\ RainOnly

\* the window is resized
RainResize(width) ==
    /\ rain.listener
    /\ rain.resizes < RainResizes
    /\ rain' = rainHandleResize([rain EXCEPT !.resizes = @ + 1], width)
    /\ RainOnly

RainUnmount ==
    /\ rain.mounted
    /\ rain' = rainUnmount(rain)
    /\ RainOnly

RainClock == [time |-> RainTime]

NextRain ==
    \/ \E d \in {500} : Tick(RainClock, d)
    \/ RainFrame
    \/ \E width \in RainWidths : RainResize(width)
    \/ RainUnmount

SpecRain == InitRain /\ [][NextRain]_vars

\* C24: after MatrixRainShader unmounts its animate loop is not scheduled
\* any more, and renderer.render is never called after renderer.dispose().
C24_RainTornDown ==
    /\ ~rain.mounted => ~rain.scheduled
    /\ rain.rendersDisposed = 0

----------------------------------------------------------------------------
(* WebGPUDemo: the depth texture of a render loop *)

\* WebGPUDemo after 'webgpu' was chosen, initWebGPU ran to its end and the
\* render loop drew its first frame with a depth texture of its own
GpuRunning ==
    LET G1 == handleRendererChange([InitialGpu(TRUE) EXCEPT !.changes = 1], "webgpu", 1)
        G2 == initWebGPUAdapter(G1, 1, TRUE, TRUE, 1)
        G3 == initWebGPUDevice(G2, 1, TRUE, 1)
        i  == Len(G3.loops)
    IN  render([G3 EXCEPT !.loops[i].scheduled = FALSE], i, 1)

\* the depth-texture run: it starts with one change of type spent, either
\* on the mounted component or on the component rendering in 'webgpu' mode,
\* and counts the frames of every loop from there
InitDepth ==
    /\ now = 1
    /\ \/ \E hasGpu \in BOOLEAN : gpu = [InitialGpu(hasGpu) EXCEPT !.changes = 1]
       \/ gpu = [GpuRunning EXCEPT
                    !.loops = [i \in DOMAIN @ |-> [@[i] EXCEPT !.frames = 0]]]
    /\ Is([InitialWorld EXCEPT !.fg.mounted = FALSE, !.fg.canvasRef = 0])
    /\ hist = InitialHist
    /\ inst = [mounted |-> FALSE]
    /\ gl = [mounted |-> FALSE]
    /\ rain = [mounted |-> FALSE]
    /\ timer = [mounted |-> FALSE]

SpecDepth == InitDepth /\ [][NextGpu]_vars

\* C25: no render pass of WebGPUDemo takes a destroyed depth texture as its
\* depth attachment.
C25_NoDestroyedDepthUse ==
    gpu.mounted => \A i \in DOMAIN gpu.loops : gpu.loops[i].destroyedUses = 0

----------------------------------------------------------------------------
(* WebGLDemo: the fps shown while nothing is rendered *)

\* C26: a frame of WebGLDemo's animate that runs while the renderer type is
\* 'none' leaves the displayed fps at 0.
C26_FpsResetInNone ==
    [][ (gl.mounted /\ gl'.mounted /\ gl.rendererTypeRef = "none"
         /\ gl'.frames = gl.frames + 1) => gl'.fps = 0 ]_vars

----------------------------------------------------------------------------
(* OffscreenDemo: the canvas of a mode *)

CanvasesInContainer == {c \in DOMAIN canvases : canvases[c].inContainer}

\* the container holds one canvas, and a transferred canvas was transferred
\* once and never gave a rendering context to the main thread
OneFreshCanvas ==
    /\ fg.mounted => Cardinality(CanvasesInContainer) = 1
    /\ \A c \in DOMAIN canvases :
            /\ canvases[c].transfers <= 1
            /\ canvases[c].transferred => canvases[c].context = "none"

\* a step that activates 'offscreen' or 'main' takes the previous canvas out
\* of the container and puts in one created by this step
Activates ==
    (hist'.toggles # hist.toggles /\ fg'.currentMode \in {"offscreen", "main"}) =>
        /\ CanvasesInContainer' \cap DOMAIN canvases = {}
        /\ Cardinality(CanvasesInContainer') = 1

\* C27: every activation of 'offscreen' or 'main' replaces the canvas, the
\* container holds exactly one canvas, and transferControlToOffscreen is only
\* called on a canvas never transferred and with no rendering context.
C27_FreshCanvas == [](OneFreshCanvas) /\ [][Activates]_vars

\* 'offscreen' was activated a second time: the canvas of 'main' mode, with
\* its WebGL context, is out and a fourth canvas was transferred
C27_Witness ==
    /\ fg.currentMode = "offscreen"
    /\ Len(canvases) = 4
    /\ canvases[3].context = "webgl"
    /\ ~canvases[3].inContainer
    /\ canvases[4].transfers = 1
    /\ CanvasesInContainer = {4}

----------------------------------------------------------------------------
(* WebGPUDemo: the layout of the per-object uniform buffer *)

GRID_SIZE == 25
objectUniformSize == 256
BytesPerFloat == 4
FloatsPerObject == 8

instanceCount == GRID_SIZE * GRID_SIZE * GRID_SIZE
objectBufferSize == instanceCount * objectUniformSize

\* length of objectData, a Float32Array
objectDataLength == objectBufferSize \div BytesPerFloat

\* a layout that drops the stride of y: cells of one x share slots
CellIndexFlatY(x, y, z) == x * GRID_SIZE * GRID_SIZE + y + z

\* the slot of the cube at grid cell (x, y, z)
CellIndex(x, y, z) == x * GRID_SIZE * GRID_SIZE + y * GRID_SIZE + z

\* the first float of slot index in objectData
FloatOffset(index) == index * (objectUniformSize \div BytesPerFloat)

\* the dynamic offset of draw i
DynamicOffset(i) == i * 256

\* the cell after (x, y, z) in the order of the three nested loops
NextCell(x, y, z) ==
    IF z + 1 < GRID_SIZE THEN <<x, y, z + 1>>
    ELSE IF y + 1 < GRID_SIZE THEN <<x, y + 1, 0>>
    ELSE <<x + 1, 0, 0>>

\* initWebGPU is about to fill objectData; nothing was written or drawn
LayoutStart ==
    [mounted |-> TRUE, pc |-> "fill", cell |-> <<0, 0, 0>>,
     filled |-> 0, lastCell |-> <<0, 0, 0>>, lastIndex |-> 0, lastFloats |-> {},
     byteLength |-> objectDataLength * BytesPerFloat,
     i |-> 0, drawn |-> 0, dynamicOffset |-> 0, bindingSize |-> 256]

\* one iteration of the innermost loop: eight floats of one cube
fillCell(G) ==
    LET x == G.cell[1]
        y == G.cell[2]
        z == G.cell[3]
        index == CellIndex(x, y, z)
        offset == FloatOffset(index)
        next == NextCell(x, y, z)
    IN  [G EXCEPT !.filled = @ + 1,
                  !.lastCell = G.cell,
                  !.lastIndex = index,
                  !.lastFloats = {offset + k : k \in 0 .. FloatsPerObject - 1},
                  !.cell = next,
                  !.pc = IF next[1] < GRID_SIZE THEN "fill" ELSE "draw"]

\* one iteration of the draw loop of a render pass
drawInstance(G) ==
    [G EXCEPT !.dynamicOffset = DynamicOffset(G.i),
              !.drawn = @ + 1,
              !.i = @ + 1,
              !.pc = IF G.i + 1 < instanceCount THEN "draw" ELSE "done"]

InitLayout ==
    /\ now = 1
    /\ gpu = LayoutStart
    /\ Is([InitialWorld EXCEPT !.fg.mounted = FALSE, !.fg.canvasRef = 0])
    /\ hist = InitialHist
    /\ inst = [mounted |-> FALSE]
    /\ gl = [mounted |-> FALSE]
    /\ rain = [mounted |-> FALSE]
    /\ timer = [mounted |-> FALSE]

FillCell ==
    /\ gpu.pc = "fill"
    /\ gpu' = fillCell(gpu)
    /\ GpuOnly

DrawInstance ==
    /\ gpu.pc = "draw"
    /\ gpu' = drawInstance(gpu)
    /\ GpuOnly

NextLayout == FillCell \/ DrawInstance

SpecLayout == InitLayout /\ [][NextLayout]_vars

\* the cell whose slot is index when the slots are laid out x-major, z-minor
CellOfSlot(index) ==
    <<index \div (GRID_SIZE * GRID_SIZE),
      (index \div GRID_SIZE) % GRID_SIZE,
      index % GRID_SIZE>>

\* the slot written last is inside the buffer, belongs to no other cell, and
\* holds all eight floats of its cube
SlotOwned ==
    gpu.filled > 0 =>
        /\ gpu.lastIndex \in 0 .. instanceCount - 1
        /\ CellOfSlot(gpu.lastIndex) = gpu.lastCell
        /\ Cardinality(gpu.lastFloats) = FloatsPerObject
        /\ \A f \in gpu.lastFloats :
                /\ f * BytesPerFloat >= gpu.lastIndex * 256
                /\ f * BytesPerFloat + BytesPerFloat <= gpu.lastIndex * 256 + 256
                /\ f < objectDataLength

\* the binding of the last draw is aligned, inside the buffer, and is the
\* slot of one cell of the grid
BindingInside ==
    gpu.drawn > 0 =>
        /\ gpu.dynamicOffset % 256 = 0
        /\ gpu.dynamicOffset + gpu.bindingSize <= gpu.byteLength
        /\ LET c == CellOfSlot(gpu.dynamicOffset \div 256)
           IN  /\ \A k \in 1 .. 3 : c[k] \in 0 .. GRID_SIZE - 1
               /\ CellIndex(c[1], c[2], c[3]) * 256 = gpu.dynamicOffset

\* C28: the slot index x*G*G + y*G + z maps the G^3 cells one-to-one onto
\* 0 .. G^3 - 1, the eight floats of a cube lie inside its own 256-byte slot,
\* and every dynamic offset i*256 is a multiple of 256 with
\* i*256 + 256 <= the size of the buffer.
C28_UniformLayout ==
    /\ gpu.pc \in {"fill", "draw", "done"}
    /\ SlotOwned
    /\ BindingInside
    /\ gpu.pc # "fill" => gpu.filled = instanceCount
    /\ gpu.pc = "done" => gpu.drawn = instanceCount

\* every cube was written and the last draw bound the last slot, which ends
\* at the end of the buffer
C28_Witness ==
    /\ gpu.pc = "done"
    /\ gpu.filled = instanceCount
    /\ gpu.lastCell = <<GRID_SIZE - 1, GRID_SIZE - 1, GRID_SIZE - 1>>
    /\ gpu.lastIndex = instanceCount - 1
    /\ gpu.dynamicOffset + 256 = gpu.byteLength

----------------------------------------------------------------------------
(* TimerAndOldStateDemo: the count a timeout shows *)

TimerClicks == 3
TimerTime == 2501
TimeoutDelay == 1000

\* ticks of the clock of a TimerAndOldStateDemo run
TimerTicks == {250, 500}

\* the component after its first render and the mount run of the effect,
\* which does nothing while flag is 0.  flag and count are the state of the
\* last render, which the closures of that render hold; flagQueue and
\* countQueue are the updates not yet rendered.
InitialTimer ==
    [mounted |-> TRUE, flag |-> 0, count |-> 0,
     flagQueue |-> <<>>, countQueue |-> <<>>, effectDue |-> FALSE,
     timeouts |-> {}, alerts |-> <<>>, clicks |-> 0, spaced |-> TRUE]

\* no update waits for a render and no effect waits to run
TimerSettled(T) ==
    /\ T.flagQueue = <<>>
    /\ T.countQueue = <<>>
    /\ ~T.effectDue

\* onClick of the button: setFlag(flag + 1), with the flag of the last render
timerOnClick(T) ==
    [T EXCEPT !.flagQueue = Append(@, T.flag + 1),
              !.clicks = @ + 1,
              !.spaced = @ /\ TimerSettled(T)]

\* the last value of a queue of updates, or the state when it is empty
LastUpdate(queue, state) ==
    IF queue = <<>> THEN state ELSE queue[Len(queue)]

\* a render commits the queued updates; the effect is due when flag changed
timerRender(T) ==
    LET flag == LastUpdate(T.flagQueue, T.flag)
        count == LastUpdate(T.countQueue, T.count)
    IN  [T EXCEPT !.flag = flag,
                  !.count = count,
                  !.flagQueue = <<>>,
                  !.countQueue = <<>>,
                  !.effectDue = (flag # T.flag)]

\* the effect of [flag], with the flag and count of the render it belongs to
timerEffect(T, t) ==
    IF T.flag # 0
    THEN [T EXCEPT !.effectDue = FALSE,
                   !.countQueue = Append(@, T.count + 1),
                   !.timeouts = @ \cup {[click |-> T.clicks, count |-> T.count,
                                         set |-> t, due |-> t + TimeoutDelay]}]
    ELSE [T EXCEPT !.effectDue = FALSE]

\* an alert that reads the count of the render on screen
alertTextCurrent(T, timeout) == T.count

\* the text of the alert: the count the callback closed over
alertText(T, timeout) == timeout.count

\* the callback of a timeout
timerTimeout(T, timeout, t) ==
    [T EXCEPT !.timeouts = @ \ {timeout},
              !.alerts = Append(@, [click |-> timeout.click,
                                    shows |-> alertText(T, timeout),
                                    set |-> timeout.set,
                                    at |-> t,
                                    clicks |-> T.clicks])]

InitTimer ==
    /\ now = 1
    /\ timer = InitialTimer
    /\ Is([InitialWorld EXCEPT !.fg.mounted = FALSE, !.fg.canvasRef = 0])
    /\ hist = InitialHist
    /\ inst = [mounted |-> FALSE]
    /\ gpu = [mounted |-> FALSE]
    /\ gl = [mounted |-> FALSE]
    /\ rain = [mounted |-> FALSE]

TimerOnly == UNCHANGED <<now, offVars, inst, gpu, gl, rain>>

TimerClick ==
    /\ timer.clicks < TimerClicks
    /\ timer' = timerOnClick(timer)
    /\ TimerOnly

\* React flushes the effects of a render before it renders again
TimerRender ==
    /\ ~timer.effectDue
    /\ timer.flagQueue # <<>> \/ timer.countQueue # <<>>
    /\ timer' = timerRender(timer)
    /\ TimerOnly

TimerEffect ==
    /\ timer.effectDue
    /\ timer' = timerEffect(timer, now)
    /\ TimerOnly

TimerTimeout ==
    \E timeout \in timer.timeouts :
        /\ timeout.due <= now
        /\ timer' = timerTimeout(timer, timeout, now)
        /\ TimerOnly

TimerClock == [time |-> TimerTime]

\* the clock moves on once the expired timeouts have run
TimerTick(d) ==
    /\ \A timeout \in timer.timeouts : timeout.due > now
    /\ Tick(TimerClock, d)

NextTimer ==
    \/ \E d \in TimerTicks : TimerTick(d)
    \/ TimerClick
    \/ TimerRender
    \/ TimerEffect
    \/ TimerTimeout

SpecTimer == InitTimer /\ [][NextTimer]_vars

\* the largest tick: how late a timeout may run
TimerSlack == 500

\* C29: when every click finds the previous render settled, the k-th click
\* brings count to k, and the alert scheduled by the k-th click runs about a
\* second later and shows k - 1, whatever was clicked in between.
C29_StaleCountShown ==
    timer.spaced =>
        /\ TimerSettled(timer) => timer.count = timer.clicks
        /\ \A timeout \in timer.timeouts : timeout.count = timeout.click - 1
        /\ \A n \in DOMAIN timer.alerts :
            LET a == timer.alerts[n]
            IN  /\ a.shows = a.click - 1
                /\ a.at - a.set >= TimeoutDelay
                /\ a.at - a.set < TimeoutDelay + TimerSlack

\* three spaced clicks, and the alert of the first ran after the third click
\* had brought count to 3: it showed 0
C29_Witness ==
    /\ timer.spaced
    /\ timer.clicks = 3
    /\ timer.count = 3
    /\ TimerSettled(timer)
    /\ Len(timer.alerts) >= 1
    /\ timer.alerts[1].click = 1
    /\ timer.alerts[1].shows = 0
    /\ timer.alerts[1].clicks = 3

----------------------------------------------------------------------------
(* offscreen worker: the range of the damped camera state *)

OrbitEvents == 3
OrbitFrames == 3
OrbitTime == 1100

\* the orbit run: a drag and a wheel turn, both past the ends of their
\* ranges, with the worker's frames between and after them
Orbit ==
    [ toggles |-> 0, events |-> OrbitEvents, frames |-> OrbitFrames,
      time |-> OrbitTime, frameTimes |-> {16}, ticks |-> {1000},
      mouse |-> {<<0, 0>>, <<3, 400>>}, wheel |-> {3000, -3000} ]

NextOrbit == WorkerNext(Orbit)

SpecOrbit == InitCamera /\ [][NextOrbit]_vars

\* C30: the worker's current, damped, pitch cameraRotation.x lies in
\* [-pi/2, pi/2] and its current cameraDistance in [10, 100], after any
\* interaction messages and frames.
C30_CameraInRange ==
    \A id \in LiveWorkers :
        LET st == workers[id].st
        IN  /\ st.cameraRotation.x >= -(HalfPi * Scale)
            /\ st.cameraRotation.x <= HalfPi * Scale
            /\ st.cameraDistance >= MinDistance * Scale
            /\ st.cameraDistance <= MaxDistance * Scale

\* three frames have moved the pitch and the distance towards targets that a
\* drag and a wheel turn had pushed against the ends of their ranges
C30_Witness ==
    \E id \in LiveWorkers :
        LET st == workers[id].st
        IN  /\ workers[id].frameNo = OrbitFrames
            /\ st.cameraRotationTarget.x \in {HalfPi * Scale, -(HalfPi * Scale)}
            /\ st.cameraDistanceTarget \in {MinDistance * Scale, MaxDistance * Scale}
            /\ st.cameraRotation.x # 0
            /\ st.cameraRotation.x # st.cameraRotationTarget.x
            /\ st.cameraDistance # InitDistance * Scale
            /\ st.cameraDistance # st.cameraDistanceTarget

====
